---- MODULE Spec2Model ----
(***************************************************************************)
(* A model of bemani/utils/afputils.py: the "render" and "list" actions of *)
(* main() (container normalisation into the AFPRenderer's libraries, the   *)
(* forced-aspect transform, the export) and write_bytecode().              *)
(***************************************************************************)
EXTENDS Integers, Sequences, FiniteSets, TLC

\* ------------------------------------------------------------------ bounds

\* How many containers the command line names (len(args.container)).
MaxContainers == 2
\* How many entries a TXP2 container's region map / region table holds.
MaxRegions == 2

\* Python's None, and a value that is not None: an optional value is a
\* sequence of at most one element.
None == <<>>

Some(x) == <<x>>

\* ------------------------------------------------------------------ strings
\* A Python str is a sequence of one-character strings, so that startswith,
\* endswith and slicing are computed, not assumed.

\* os.sep (POSIX).
Sep == <<"/">>

NameX == <<"X">>

NameY == <<"Y">>

DirGeo == <<"g", "e", "o">>

DirTex == <<"t", "e", "x">>

DirAfp == <<"a", "f", "p">>

DirBsi == <<"b", "s", "i">>

ExtPng == <<".", "p", "n", "g">>

ExtJpg == <<".", "j", "p", "g">>

\* s.startswith(p)
StartsWith(s, p) == Len(s) >= Len(p) /\ SubSeq(s, 1, Len(p)) = p

\* s.endswith(p)
EndsWith(s, p) == Len(s) >= Len(p) /\ SubSeq(s, Len(s) - Len(p) + 1, Len(s)) = p

\* s[k:] for k >= 0
SliceFrom(s, k) == SubSeq(s, k + 1, Len(s))

\* s[:-k] for k > 0
SliceOffEnd(s, k) == SubSeq(s, 1, Len(s) - k)

\* name in filenames (a list)
InList(x, l) == \E k \in 1..Len(l) : l[k] = x

\* ------------------------------------------------------------------ inputs
\* The bytes of a container file, seen through the two parsers main() tries:
\* txp2 is what TXP2File(data) builds (None when it raises), ifs is the file
\* listing IFS(data) builds (None when it raises).

\* region k of a texture_to_region table: regions alternate between the two
\* sheets; the second rectangle has odd coordinates.
RegionOf(k) ==
    IF k % 2 = 1
    THEN [textureno |-> 0, left |-> 100, top |-> 100, right |-> 300, bottom |-> 300]
    ELSE [textureno |-> 1, left |-> 1, top |-> 3, right |-> 101, bottom |-> 7]

\* the logical name of the k-th map entry
NameOf(k) == IF k % 2 = 1 THEN NameX ELSE NameY

SheetName(k) == <<"S", IF k = 0 THEN "0" ELSE "1">>

\* A parsed TXP2 container of n shapes, n movie clips and nr regions. shapes
\* and swfdata hold one element per map entry (the parser builds them from the
\* maps); the region map and the region table are read independently and the
\* table may be one entry short; a region may name a sheet the texture map
\* does not have; a texture may have no decoded image (img = None).
TXP2Files ==
    { [shapemap |-> [k \in 1..n |-> NameOf(k)],
       shapes |-> [k \in 1..n |-> k],
       regionmap |-> [k \in 1..nr |-> NameOf(k)],
       texture_to_region |-> [k \in 1..(IF short /\ nr > 0 THEN nr - 1 ELSE nr) |->
                                RegionOf(k)],
       texturemap |-> [k \in 1..nx |-> SheetName(k - 1)],
       textures |-> [k \in 1..nx |-> [name |-> SheetName(k - 1),
                                      img |-> IF k \in noimg THEN None ELSE Some(k)]],
       swfmap |-> [k \in 1..n |-> NameOf(k)],
       swfdata |-> [k \in 1..n |-> k]] :
        n \in 0..1, nr \in 0..MaxRegions, short \in BOOLEAN,
        nx \in 1..2, noimg \in SUBSET (1..2) }

\* File listings of an IFS container.
IFSListings ==
    { <<>>,
      << DirGeo \o Sep \o NameX >>,
      << DirTex \o Sep \o NameX \o ExtPng, DirTex \o Sep \o NameY \o ExtJpg >>,
      << DirAfp \o Sep \o NameX, DirAfp \o Sep \o NameY,
         DirAfp \o Sep \o DirBsi \o Sep \o NameY >>,
      << DirAfp \o Sep \o NameX, DirAfp \o Sep \o DirBsi \o Sep \o NameX >>,
      << DirAfp \o Sep \o DirBsi \o Sep \o NameY, DirAfp \o Sep \o NameY,
         DirGeo \o Sep \o NameY >>,
      << DirGeo \o Sep \o NameX, DirTex \o Sep \o NameY \o ExtPng,
         DirAfp \o Sep \o NameX, DirAfp \o Sep \o DirBsi \o Sep \o NameX >> }

\* Bytes that both parsers accept: as TXP2, one shape, one region on a decoded
\* sheet and one clip; as IFS, a listing with a shape, a texture and a clip.
BothFile ==
    [txp2 |-> Some(CHOOSE t \in TXP2Files :
                      /\ Len(t.shapemap) = 1
                      /\ Len(t.regionmap) = 1
                      /\ Len(t.texture_to_region) = 1
                      /\ Len(t.texturemap) = 1
                      /\ t.textures[1].img # None),
     ifs |-> Some(<< DirGeo \o Sep \o NameX, DirTex \o Sep \o NameY \o ExtPng,
                     DirAfp \o Sep \o NameX, DirAfp \o Sep \o DirBsi \o Sep \o NameX >>)]

\* What open(container).read() can return.
Files ==
    { [txp2 |-> Some(t), ifs |-> None] : t \in TXP2Files }
    \cup { [txp2 |-> None, ifs |-> Some(l)] : l \in IFSListings }
    \cup { [txp2 |-> None, ifs |-> None] }
    \cup { BothFile }

\* ------------------------------------------------------------------ float
\* Python's float is IEEE 754 binary64: every operation returns the exact
\* result rounded to 53 significant bits, ties to even. A mantissa does not
\* fit a machine integer of the checker, so a natural number is kept as its
\* digits in base 2^15, least significant first, with no leading zero digit
\* (<<>> is 0). Exponents stay far inside the binary64 range here, so there
\* is no overflow to inf and no subnormal result.

\* The significant bits of a binary64 number.
Precision == 53

\* The bits of one digit of a big natural number.
DigitBits == 15

Base == 2 ^ DigitBits

RECURSIVE BigOf(_)
BigOf(n) == IF n = 0 THEN <<>> ELSE <<n % Base>> \o BigOf(n \div Base)

RECURSIVE BigTrim(_)
BigTrim(a) ==
    IF a = <<>> \/ a[Len(a)] # 0 THEN a ELSE BigTrim(SubSeq(a, 1, Len(a) - 1))

BigRest(a) == IF a = <<>> THEN <<>> ELSE Tail(a)

BigLow(a) == IF a = <<>> THEN 0 ELSE a[1]

RECURSIVE BigAddC(_, _, _)
BigAddC(a, b, c) ==
    IF a = <<>> /\ b = <<>> THEN (IF c = 0 THEN <<>> ELSE <<c>>)
    ELSE LET t == BigLow(a) + BigLow(b) + c
         IN <<t % Base>> \o BigAddC(BigRest(a), BigRest(b), t \div Base)

BigAdd(a, b) == BigAddC(a, b, 0)

\* a - b - c on the digits, for a >= b + c
RECURSIVE BigSubC(_, _, _)
BigSubC(a, b, c) ==
    IF a = <<>> THEN <<>>
    ELSE LET t == BigLow(a) - BigLow(b) - c
         IN <<t % Base>> \o BigSubC(BigRest(a), BigRest(b), IF t < 0 THEN 1 ELSE 0)

BigSub(a, b) == BigTrim(BigSubC(a, b, 0))

\* -1, 0, 1 as a < b, a = b, a > b
BigCmp(a, b) ==
    IF Len(a) # Len(b) THEN (IF Len(a) < Len(b) THEN -1 ELSE 1)
    ELSE LET d == {k \in 1..Len(a) : a[k] # b[k]}
         IN IF d = {} THEN 0
            ELSE LET k == CHOOSE x \in d : \A y \in d : y <= x
                 IN IF a[k] > b[k] THEN 1 ELSE -1

\* a * s + c for 0 <= s, c < Base
RECURSIVE BigMulSmall(_, _, _)
BigMulSmall(a, s, c) ==
    IF a = <<>> THEN (IF c = 0 THEN <<>> ELSE <<c>>)
    ELSE LET t == a[1] * s + c
         IN <<t % Base>> \o BigMulSmall(Tail(a), s, t \div Base)

\* a * Base^k
BigShlDigits(a, k) == IF a = <<>> THEN <<>> ELSE [j \in 1..k |-> 0] \o a

\* a * 2^k
BigShl(a, k) ==
    BigShlDigits(BigTrim(BigMulSmall(a, 2 ^ (k % DigitBits), 0)), k \div DigitBits)

\* a \div s for 0 < s < Base, from the top digit down with remainder r
RECURSIVE BigDivSmall(_, _, _, _)
BigDivSmall(a, s, k, r) ==
    IF k = 0 THEN <<>>
    ELSE LET t == r * Base + a[k]
         IN BigDivSmall(a, s, k - 1, t % s) \o <<t \div s>>

\* a \div 2^k
BigShr(a, k) ==
    IF k \div DigitBits >= Len(a) THEN <<>>
    ELSE LET top == SubSeq(a, k \div DigitBits + 1, Len(a))
         IN BigTrim(BigDivSmall(top, 2 ^ (k % DigitBits), Len(top), 0))

\* bit k of a (bit 0 is the lowest)
BigBit(a, k) ==
    IF k \div DigitBits >= Len(a) THEN 0
    ELSE (a[k \div DigitBits + 1] \div (2 ^ (k % DigitBits))) % 2

\* how many bits a has
BigBits(a) ==
    IF a = <<>> THEN 0
    ELSE (Len(a) - 1) * DigitBits
         + (CHOOSE n \in 1..DigitBits : 2 ^ (n - 1) <= a[Len(a)] /\ a[Len(a)] < 2 ^ n)

RECURSIVE BigMul(_, _)
BigMul(a, b) ==
    IF a = <<>> \/ b = <<>> THEN <<>>
    ELSE BigAdd(BigTrim(BigMulSmall(a, b[1], 0)), BigShlDigits(BigMul(a, Tail(b)), 1))

\* digit k of a, 0 above its top digit
BigDigit(a, k) == IF k <= Len(a) THEN a[k] ELSE 0

\* the largest digit d with d * b <= r, counting down from the estimate d
RECURSIVE BigQuotDigit(_, _, _)
BigQuotDigit(r, b, d) ==
    IF BigCmp(BigTrim(BigMulSmall(b, d, 0)), r) <= 0 THEN d
    ELSE BigQuotDigit(r, b, d - 1)

\* The next quotient digit of schoolbook division, for r < Base * b and b with
\* its top digit >= Base / 2: the estimate from the two top digits of r is at
\* most 2 too large.
BigQuotEstimate(r, b) ==
    LET n == Len(b)
        t == (BigDigit(r, n + 1) * Base + BigDigit(r, n)) \div b[n]
    IN IF t >= Base THEN Base - 1 ELSE t

\* Long division from digit k of a down: <<quotient, remainder>>, with q the
\* quotient digits and r the remainder of the digits above k.
RECURSIVE BigDivStep(_, _, _, _, _)
BigDivStep(a, b, k, q, r) ==
    IF k = 0 THEN <<BigTrim(q), r>>
    ELSE LET r2 == IF r = <<>> /\ a[k] = 0 THEN <<>> ELSE <<a[k]>> \o r
             d == IF Len(r2) < Len(b) THEN 0
                  ELSE BigQuotDigit(r2, b, BigQuotEstimate(r2, b))
         IN BigDivStep(a, b, k - 1, <<d>> \o q,
                       IF d = 0 THEN r2 ELSE BigSub(r2, BigTrim(BigMulSmall(b, d, 0))))

\* <<a \div b, (a % b) * 2^s>> for b > 0, where s is the shift that brings the
\* top digit of b to Base / 2 or more (it leaves the quotient as it is)
BigDivMod(a, b) ==
    LET s == (DigitBits - (BigBits(b) % DigitBits)) % DigitBits
        bn == BigShl(b, s)
        an == BigShl(a, s)
    IN BigDivStep(an, bn, Len(an), <<>>, <<>>)

\* whether any of the k lowest bits of a is set
BigLowBits(a, k) ==
    \/ \E j \in 1..(k \div DigitBits) : BigDigit(a, j) # 0
    \/ BigDigit(a, k \div DigitBits + 1) % (2 ^ (k % DigitBits)) # 0

\* A float >= 0: m * 2^e with m of exactly Precision bits, or m = <<>> for 0.0.
Float(m, e) == [m |-> m, e |-> e]

FZero == Float(<<>>, 0)

\* The float nearest to (q + f) * 2^e, where 0 <= f < 1 and f > 0 iff sticky
\* (q has more than Precision bits whenever sticky): round to nearest, ties
\* to even.
Round(q, sticky, e) ==
    IF q = <<>> THEN FZero
    ELSE IF BigBits(q) <= Precision
    THEN Float(BigShl(q, Precision - BigBits(q)), e - (Precision - BigBits(q)))
    ELSE LET k == BigBits(q) - Precision
             m0 == BigShr(q, k)
             guard == BigBit(q, k - 1) = 1
             rest == sticky \/ BigLowBits(q, k - 1)
             up == guard /\ (rest \/ BigBit(m0, 0) = 1)
             m1 == IF up THEN BigAdd(m0, <<1>>) ELSE m0
         IN IF BigBits(m1) > Precision
            THEN Float(BigShr(m1, 1), e + k + 1)
            ELSE Float(m1, e + k)

\* float(n) for an int n >= 0
FromInt(n) == Round(BigOf(n), FALSE, 0)

\* a * b
FMul(a, b) ==
    IF a.m = <<>> \/ b.m = <<>> THEN FZero
    ELSE Round(BigMul(a.m, b.m), FALSE, a.e + b.e)

\* a / b, b > 0
FDiv(a, b) ==
    IF a.m = <<>> THEN FZero
    ELSE LET qr == BigDivMod(BigShl(a.m, Precision + 2), b.m)
         IN Round(qr[1], qr[2] # <<>>, a.e - b.e - (Precision + 2))

\* -1, 0, 1 as a < b, a = b, a > b
FCmp(a, b) ==
    IF a.m = <<>> \/ b.m = <<>>
    THEN (IF a.m = b.m THEN 0 ELSE IF a.m = <<>> THEN -1 ELSE 1)
    ELSE IF a.e # b.e THEN (IF a.e < b.e THEN -1 ELSE 1)
    ELSE BigCmp(a.m, b.m)

FGt(a, b) == FCmp(a, b) = 1

FLt(a, b) == FCmp(a, b) = -1

\* abs(a - b)
FAbsDiff(a, b) ==
    IF a.m = <<>> THEN b
    ELSE IF b.m = <<>> THEN a
    ELSE LET e0 == IF a.e < b.e THEN a.e ELSE b.e
             x == BigShl(a.m, a.e - e0)
             y == BigShl(b.m, b.e - e0)
         IN IF BigCmp(x, y) >= 0 THEN Round(BigSub(x, y), FALSE, e0)
            ELSE Round(BigSub(y, x), FALSE, e0)

\* ------------------------------------------------------------------ state

VARIABLES
    args,        \* the parsed command line (argparse's namespace)
    pc,          \* where main() is
    ci,          \* how many of args.container the for loop has finished
    data,        \* the bytes read from the current container
    afpfile,     \* the TXP2File of the current container, or None
    ifsfile,     \* the IFS file listing of the current container, or None
    i,           \* the enumerate() index of the running inner loop (0-based)
    shapes,      \* renderer.shapes: name -> shape
    textures,    \* renderer.textures: name -> image
    swfs,        \* renderer.swfs: name -> movie clip
    registered,  \* every add_shape/add_texture/add_swf call made so far
    calls,       \* the renderer's render/list entry points called so far
    stdout,      \* lines printed to sys.stdout
    stderr,      \* lines printed to sys.stderr
    err,         \* the message of the exception main() died of ("" while it runs)
    fmt,              \* "GIF", "WEBP" or "PNG" ("" before it is set)
    swf_location,     \* renderer.compute_path_location(args.path): width, height
    requested_width,  \* float
    requested_height, \* float
    actual_ratio,     \* float, None before it is computed
    swf_ratio,        \* float, None before it is computed
    new_width,        \* float, None before it is computed
    new_height,       \* float, None before it is computed
    transform,        \* the Matrix handed to render_path
    images,           \* how many frames render_path returned (None before it ran)
    written,          \* the files opened for writing, in order
    swf,              \* write_bytecode's argument (the empty clip where it is not called)
    stack,            \* the running calls of bytecode_from_tags: its list and position
    lut,              \* write_bytecode's lut: a dict, as its items in insertion order
    buff,             \* write_bytecode's buff
    code              \* the lines written to the .code file (None before)

aspectvars == <<actual_ratio, swf_ratio, new_width, new_height>>

rendervars == <<fmt, swf_location, requested_width, requested_height, aspectvars, transform,
                images, written>>

flatvars == <<swf, stack, lut, buff, code>>

loadvars == <<ci, data, afpfile, ifsfile, i, shapes, textures, swfs, registered>>

vars == <<args, pc, calls, stdout, stderr, err, loadvars, rendervars, flatvars>>

\* the empty dict
EmptyMap == [n \in {} |-> 0]

\* An asset handed to the renderer: src is the position in args.container of
\* the container it was loaded from; kind/idx/file/box say which object it is
\* (the idx-th shape or clip of a TXP2 container, the crop box of a sheet, the
\* files of an IFS container it was built from).
Asset(src, kind, idx, file, box) ==
    [src |-> src, kind |-> kind, idx |-> idx, file |-> file, box |-> box]

NoBox == <<0, 0, 0, 0>>

\* self.shapes[name] = data / self.textures[name] = data / self.swfs[name] = data
Register(lib, name, asset) ==
    [n \in DOMAIN lib \cup {name} |-> IF n = name THEN asset ELSE lib[n]]

\* the record of one add_* call
Event(ns, name, asset) == [ns |-> ns, name |-> name, asset |-> asset]

\* print(..., file=sys.stderr) under "if args.verbose"
Verbose(n) == IF args.verbose THEN stderr + n ELSE stderr

\* A loop that walked args.container from its last element to its first
\* would open this one at its k-th iteration.
ContainerReversed(k) == args.ncontainers + 1 - k

\* The k-th iteration of "for container in args.container" (k = 1, 2, ...)
\* opens args.container[k - 1].
ContainerAt(k) == k

\* No container read: data, afpfile and ifsfile are rebound at the top of every
\* iteration and never read after the loop, so the end of an iteration
\* clears them.
NoData == [txp2 |-> None, ifs |-> None]

\* The order the blocks would have were the "render"/"list" block part of the
\* body of the for loop: it would run after every container.
FlowInsideLoop(p, k) ==
    CASE p = "start" -> IF k < args.ncontainers THEN "loop" ELSE "dispatch"
      [] p = "container" -> "dispatch"
      [] p = "action" -> IF k < args.ncontainers THEN "loop" ELSE "done"

\* The order of main()'s top-level blocks: at the start and after the body of
\* the for loop has finished the k-th container, the loop goes on or falls
\* through to the "render"/"list" block; after that block main() returns.
Flow(p, k) ==
    CASE p \in {"start", "container"} -> IF k < args.ncontainers THEN "loop" ELSE "dispatch"
      [] p = "action" -> "done"

\* ------------------------------------------------------------------ main: the container loop

\* with open(container, "rb") as bfp: data = bfp.read()
ReadContainer ==
    /\ pc = "loop"
    /\ data' \in Files
    /\ afpfile' = None
    /\ pc' = "txp2"
    /\ UNCHANGED <<rendervars, flatvars>>
    /\ UNCHANGED <<args, ci, ifsfile, i, shapes, textures, swfs, registered, calls, stdout,
                   stderr, err>>

\* afpfile = TXP2File(data) succeeded: if afpfile is not None
ParseTXP2 ==
    /\ pc = "txp2"
    /\ data.txp2 # None
    /\ afpfile' = data.txp2
    /\ pc' = "shapes"
    /\ i' = 0
    /\ stderr' = Verbose(1)
    /\ UNCHANGED <<rendervars, flatvars>>
    /\ UNCHANGED <<args, ci, data, ifsfile, shapes, textures, swfs, registered, calls, stdout,
                   err>>

\* TXP2File(data) raised: except Exception: pass; ifsfile = None
NotTXP2 ==
    /\ pc = "txp2"
    /\ data.txp2 = None
    /\ ifsfile' = None
    /\ pc' = "ifs"
    /\ UNCHANGED <<rendervars, flatvars>>
    /\ UNCHANGED <<args, ci, data, afpfile, i, shapes, textures, swfs, registered, calls,
                   stdout, stderr, err>>

\* ifsfile = IFS(data, decode_textures=True) succeeded: if ifsfile is not None
ParseIFS ==
    /\ pc = "ifs"
    /\ data.ifs # None
    /\ ifsfile' = data.ifs
    /\ pc' = "files"
    /\ i' = 0
    /\ stderr' = Verbose(1)
    /\ UNCHANGED <<rendervars, flatvars>>
    /\ UNCHANGED <<args, ci, data, afpfile, shapes, textures, swfs, registered, calls, stdout,
                   err>>

\* A loop body that ended in "else: raise Exception(...)" would stop here.
NotIFSFatal ==
    /\ pc = "ifs"
    /\ data.ifs = None
    /\ pc' = "raised"
    /\ err' = "Unrecognized container"
    /\ UNCHANGED <<rendervars, flatvars>>
    /\ UNCHANGED <<args, ci, data, afpfile, ifsfile, i, shapes, textures, swfs, registered, calls,
                   stdout, stderr>>

\* IFS(data) raised too: except Exception: pass, and the loop body ends
NotIFS ==
    /\ pc = "ifs"
    /\ data.ifs = None
    /\ ci' = ci + 1
    /\ pc' = Flow("container", ci + 1)
    /\ data' = NoData
    /\ UNCHANGED <<rendervars, flatvars>>
    /\ UNCHANGED <<args, afpfile, ifsfile, i, shapes, textures, swfs, registered, calls,
                   stdout, stderr, err>>

\* for i, name in enumerate(afpfile.shapemap.entries): renderer.add_shape(name, afpfile.shapes[i])
AddShape ==
    /\ pc = "shapes"
    /\ i < Len(afpfile[1].shapemap)
    /\ LET name == afpfile[1].shapemap[i + 1]
           shape == Asset(ContainerAt(ci + 1), "shape", afpfile[1].shapes[i + 1], <<>>, NoBox)
       IN /\ shapes' = Register(shapes, name, shape)
          /\ registered' = registered \cup {Event("shapes", name, shape)}
    /\ i' = i + 1
    /\ stderr' = Verbose(1)
    /\ UNCHANGED <<rendervars, flatvars>>
    /\ UNCHANGED <<args, pc, ci, data, afpfile, ifsfile, textures, swfs, calls, stdout, err>>

ShapesDone ==
    /\ pc = "shapes"
    /\ i >= Len(afpfile[1].shapemap)
    /\ pc' = "regions"
    /\ i' = 0
    /\ UNCHANGED <<rendervars, flatvars>>
    /\ UNCHANGED <<args, ci, data, afpfile, ifsfile, shapes, textures, swfs, registered, calls,
                   stdout, stderr, err>>

\* if i < 0 or i >= len(afpfile.texture_to_region)
RegionOutOfBounds(afp, k) == k < 0 \/ k >= Len(afp.texture_to_region)

\* afpfile.texturemap.entries[region.textureno], then the first texture of
\* that name (the sheets dict caches it); None when the index or the name
\* finds nothing.
SheetOf(afp, region) ==
    IF region.textureno >= Len(afp.texturemap) THEN None
    ELSE LET texturename == afp.texturemap[region.textureno + 1]
             found == {k \in 1..Len(afp.textures) : afp.textures[k].name = texturename}
         IN IF found = {} THEN None
            ELSE Some(afp.textures[CHOOSE k \in found : \A j \in found : k <= j])

\* the rectangle of the region as it stands, not halved
CropBoxWhole(region) == <<region.left, region.top, region.right, region.bottom>>

\* (region.left // 2, region.top // 2, region.right // 2, region.bottom // 2)
CropBox(region) ==
    <<region.left \div 2, region.top \div 2, region.right \div 2, region.bottom \div 2>>

\* A loop that answered an out of bounds index with "continue" would go on
\* with the next entry.
RegionSkipped ==
    /\ pc = "regions"
    /\ i < Len(afpfile[1].regionmap)
    /\ i < 0 \/ i >= Len(afpfile[1].texture_to_region)
    /\ i' = i + 1
    /\ UNCHANGED <<rendervars, flatvars>>
    /\ UNCHANGED <<args, pc, ci, data, afpfile, ifsfile, shapes, textures, swfs, registered, calls,
                   stdout, stderr, err>>

\* raise Exception(f"Out of bounds region {i}")
RegionRaise ==
    /\ pc = "regions"
    /\ i < Len(afpfile[1].regionmap)
    /\ RegionOutOfBounds(afpfile[1], i)
    /\ pc' = "raised"
    /\ err' = "Out of bounds region"
    /\ UNCHANGED <<rendervars, flatvars>>
    /\ UNCHANGED <<args, ci, data, afpfile, ifsfile, i, shapes, textures, swfs, registered, calls,
                   stdout, stderr>>

\* the IndexError of texturemap.entries[...] / raise Exception("Could not find texture ...")
RegionLookupRaise ==
    /\ pc = "regions"
    /\ i < Len(afpfile[1].regionmap)
    /\ ~RegionOutOfBounds(afpfile[1], i)
    /\ SheetOf(afpfile[1], afpfile[1].texture_to_region[i + 1]) = None
    /\ pc' = "raised"
    /\ err' = IF afpfile[1].texture_to_region[i + 1].textureno >= Len(afpfile[1].texturemap)
              THEN "IndexError" ELSE "Could not find texture"
    /\ UNCHANGED <<rendervars, flatvars>>
    /\ UNCHANGED <<args, ci, data, afpfile, ifsfile, i, shapes, textures, swfs, registered, calls,
                   stdout, stderr>>

\* if sheets[texturename].img: renderer.add_texture(name, img.crop(...))
AddRegion ==
    /\ pc = "regions"
    /\ i < Len(afpfile[1].regionmap)
    /\ ~RegionOutOfBounds(afpfile[1], i)
    /\ LET name == afpfile[1].regionmap[i + 1]
           region == afpfile[1].texture_to_region[i + 1]
           sheet == SheetOf(afpfile[1], region)
       IN /\ sheet # None
          /\ sheet[1].img # None
          /\ LET sprite == Asset(ContainerAt(ci + 1), "crop", sheet[1].img[1], sheet[1].name,
                                 CropBox(region))
             IN /\ textures' = Register(textures, name, sprite)
                /\ registered' = registered \cup {Event("textures", name, sprite)}
    /\ i' = i + 1
    /\ stderr' = Verbose(1)
    /\ UNCHANGED <<rendervars, flatvars>>
    /\ UNCHANGED <<args, pc, ci, data, afpfile, ifsfile, shapes, swfs, calls, stdout, err>>

\* A loop that raised on a texture without a decoded image would stop here.
SkipRegionFatal ==
    /\ pc = "regions"
    /\ i < Len(afpfile[1].regionmap)
    /\ ~RegionOutOfBounds(afpfile[1], i)
    /\ LET sheet == SheetOf(afpfile[1], afpfile[1].texture_to_region[i + 1])
       IN /\ sheet # None
          /\ sheet[1].img = None
    /\ pc' = "raised"
    /\ err' = "Cannot load"
    /\ UNCHANGED <<rendervars, flatvars>>
    /\ UNCHANGED <<args, ci, data, afpfile, ifsfile, i, shapes, textures, swfs, registered, calls,
                   stdout, stderr>>

\* else: print(f"Cannot load {name} from {texturename} because it is not a supported format!")
SkipRegion ==
    /\ pc = "regions"
    /\ i < Len(afpfile[1].regionmap)
    /\ ~RegionOutOfBounds(afpfile[1], i)
    /\ LET sheet == SheetOf(afpfile[1], afpfile[1].texture_to_region[i + 1])
       IN /\ sheet # None
          /\ sheet[1].img = None
    /\ stdout' = stdout + 1
    /\ i' = i + 1
    /\ UNCHANGED <<rendervars, flatvars>>
    /\ UNCHANGED <<args, pc, ci, data, afpfile, ifsfile, shapes, textures, swfs, registered, calls,
                   stderr, err>>

RegionsDone ==
    /\ pc = "regions"
    /\ i >= Len(afpfile[1].regionmap)
    /\ pc' = "swfs"
    /\ i' = 0
    /\ UNCHANGED <<rendervars, flatvars>>
    /\ UNCHANGED <<args, ci, data, afpfile, ifsfile, shapes, textures, swfs, registered, calls,
                   stdout, stderr, err>>

\* for i, name in enumerate(afpfile.swfmap.entries): renderer.add_swf(name, afpfile.swfdata[i])
AddSwf ==
    /\ pc = "swfs"
    /\ i < Len(afpfile[1].swfmap)
    /\ LET name == afpfile[1].swfmap[i + 1]
           movie == Asset(ContainerAt(ci + 1), "swf", afpfile[1].swfdata[i + 1], <<>>, NoBox)
       IN /\ swfs' = Register(swfs, name, movie)
          /\ registered' = registered \cup {Event("swfs", name, movie)}
    /\ i' = i + 1
    /\ stderr' = Verbose(1)
    /\ UNCHANGED <<rendervars, flatvars>>
    /\ UNCHANGED <<args, pc, ci, data, afpfile, ifsfile, shapes, textures, calls, stdout, err>>

\* A TXP2 branch without its "continue" would fall through to the IFS parse.
SwfsFallThrough ==
    /\ pc = "swfs"
    /\ i >= Len(afpfile[1].swfmap)
    /\ ifsfile' = None
    /\ pc' = "ifs"
    /\ UNCHANGED <<rendervars, flatvars>>
    /\ UNCHANGED <<args, ci, data, afpfile, i, shapes, textures, swfs, registered, calls, stdout,
                   stderr, err>>

\* the "continue" that ends the TXP2 branch
SwfsDone ==
    /\ pc = "swfs"
    /\ i >= Len(afpfile[1].swfmap)
    /\ ci' = ci + 1
    /\ pc' = Flow("container", ci + 1)
    /\ data' = NoData
    /\ afpfile' = None
    /\ i' = 0
    /\ UNCHANGED <<rendervars, flatvars>>
    /\ UNCHANGED <<args, ifsfile, shapes, textures, swfs, registered, calls, stdout, stderr, err>>

\* fname[(3 + len(os.sep)):]
TrimDir(fname) == SliceFrom(fname, 3 + Len(Sep))

\* fname.startswith(f"geo{os.sep}")
IsGeo(fname) == StartsWith(fname, DirGeo \o Sep)

\* fname.startswith(f"tex{os.sep}") and fname.endswith(".png")
IsTex(fname) == StartsWith(fname, DirTex \o Sep) /\ EndsWith(fname, ExtPng)

\* fname.startswith(f"afp{os.sep}")
IsAfp(fname) == StartsWith(fname, DirAfp \o Sep)

\* the companion looked for at the top of the container
BsiPathTop(afpname) == DirBsi \o Sep \o afpname

\* f"afp{os.sep}bsi{os.sep}{afpname}"
BsiPath(afpname) == DirAfp \o Sep \o DirBsi \o Sep \o afpname

\* if fname.startswith("geo/"): renderer.add_shape(shapename, Shape(shapename, fdata))
IfsAddShape ==
    /\ pc = "files"
    /\ i < Len(ifsfile[1])
    /\ LET fname == ifsfile[1][i + 1]
           shapename == TrimDir(fname)
           shape == Asset(ContainerAt(ci + 1), "Shape", 0, fname, NoBox)
       IN /\ IsGeo(fname)
          /\ shapes' = Register(shapes, shapename, shape)
          /\ registered' = registered \cup {Event("shapes", shapename, shape)}
    /\ i' = i + 1
    /\ stderr' = Verbose(1)
    /\ UNCHANGED <<rendervars, flatvars>>
    /\ UNCHANGED <<args, pc, ci, data, afpfile, ifsfile, textures, swfs, calls, stdout, err>>

\* elif fname.startswith("tex/") and fname.endswith(".png"):
\*     renderer.add_texture(texname, Image.open(...))
IfsAddTexture ==
    /\ pc = "files"
    /\ i < Len(ifsfile[1])
    /\ LET fname == ifsfile[1][i + 1]
           texname == SliceOffEnd(TrimDir(fname), 4)
           tex == Asset(ContainerAt(ci + 1), "Image", 0, fname, NoBox)
       IN /\ ~IsGeo(fname)
          /\ IsTex(fname)
          /\ textures' = Register(textures, texname, tex)
          /\ registered' = registered \cup {Event("textures", texname, tex)}
    /\ i' = i + 1
    /\ stderr' = Verbose(1)
    /\ UNCHANGED <<rendervars, flatvars>>
    /\ UNCHANGED <<args, pc, ci, data, afpfile, ifsfile, shapes, swfs, calls, stdout, err>>

\* elif fname.startswith("afp/"): if bsipath in ifsfile.filenames:
\*     renderer.add_swf(afpname, SWF(afpname, afpdata, bsidata))
IfsAddSwf ==
    /\ pc = "files"
    /\ i < Len(ifsfile[1])
    /\ LET fname == ifsfile[1][i + 1]
           afpname == TrimDir(fname)
           flash == Asset(ContainerAt(ci + 1), "SWF", 0, fname, NoBox)
       IN /\ ~IsGeo(fname)
          /\ ~IsTex(fname)
          /\ IsAfp(fname)
          /\ InList(BsiPath(afpname), ifsfile[1])
          /\ swfs' = Register(swfs, afpname, flash)
          /\ registered' = registered \cup {Event("swfs", afpname, flash)}
    /\ i' = i + 1
    /\ stderr' = Verbose(1)
    /\ UNCHANGED <<rendervars, flatvars>>
    /\ UNCHANGED <<args, pc, ci, data, afpfile, ifsfile, shapes, textures, calls, stdout, err>>

\* a file of no branch, or an afp file whose bsi file is not listed: nothing
IfsIgnore ==
    /\ pc = "files"
    /\ i < Len(ifsfile[1])
    /\ LET fname == ifsfile[1][i + 1]
       IN /\ ~IsGeo(fname)
          /\ ~IsTex(fname)
          /\ IsAfp(fname) => ~InList(BsiPath(TrimDir(fname)), ifsfile[1])
    /\ i' = i + 1
    /\ UNCHANGED <<rendervars, flatvars>>
    /\ UNCHANGED <<args, pc, ci, data, afpfile, ifsfile, shapes, textures, swfs, registered, calls,
                   stdout, stderr, err>>

\* the "continue" that ends the IFS branch
IfsDone ==
    /\ pc = "files"
    /\ i >= Len(ifsfile[1])
    /\ ci' = ci + 1
    /\ pc' = Flow("container", ci + 1)
    /\ data' = NoData
    /\ ifsfile' = None
    /\ i' = 0
    /\ UNCHANGED <<rendervars, flatvars>>
    /\ UNCHANGED <<args, afpfile, shapes, textures, swfs, registered, calls, stdout, stderr, err>>

\* ------------------------------------------------------------------ main: list

\* renderer.list_paths(): the paths it returns, one per registered clip
ListedPaths == DOMAIN swfs

\* elif args.action == "list": for path in renderer.list_paths(...): print(path)
ListPaths ==
    /\ pc = "dispatch"
    /\ args.action = "list"
    /\ calls' = calls \cup {"list_paths"}
    /\ stdout' = stdout + Cardinality(ListedPaths)
    /\ pc' = Flow("action", ci)
    /\ UNCHANGED <<rendervars, flatvars>>
    /\ UNCHANGED <<args, ci, data, afpfile, ifsfile, i, shapes, textures, swfs, registered, stderr, err>>

\* ------------------------------------------------------------------ main: render

\* c.lower() for the characters of the output names
LowerChar(c) ==
    CASE c = "G" -> "g" [] c = "I" -> "i" [] c = "F" -> "f" [] c = "W" -> "w"
      [] c = "E" -> "e" [] c = "B" -> "b" [] c = "P" -> "p" [] c = "N" -> "n"
      [] OTHER -> c

\* s.lower()
Lower(s) == [k \in 1..Len(s) |-> LowerChar(s[k])]

\* the format of args.output by its extension, "" when it has none of the three
FormatOf(output) ==
    IF EndsWith(Lower(output), <<".", "g", "i", "f">>) THEN "GIF"
    ELSE IF EndsWith(Lower(output), <<".", "w", "e", "b", "p">>) THEN "WEBP"
    ELSE IF EndsWith(Lower(output), ExtPng) THEN "PNG"
    ELSE ""

\* What is wrong with args.background_color (its comma-separated values as
\* ints), "" when nothing is.
ColorError(colorvals) ==
    IF colorvals = None THEN ""
    ELSE IF Len(colorvals[1]) \notin {3, 4}
    THEN "Invalid color, specify a color as a comma-separated RGB or RGBA value!"
    ELSE IF \E k \in 1..Len(colorvals[1]) : colorvals[1][k] < 0 \/ colorvals[1][k] > 255
    THEN "Color values should be between 0 and 255!"
    ELSE ""

\* if args.action == "render": the output format and the background color
RenderParams ==
    /\ pc = "dispatch"
    /\ args.action = "render"
    /\ FormatOf(args.output) # ""
    /\ ColorError(args.background_color) = ""
    /\ fmt' = FormatOf(args.output)
    /\ pc' = "location"
    /\ UNCHANGED <<swf_location, requested_width, requested_height, aspectvars, transform,
                   images, written>>
    /\ UNCHANGED <<args, loadvars, flatvars, calls, stdout, stderr, err>>

\* raise Exception("Unrecognized file extension for output!") / the color's
RenderParamsRaise ==
    /\ pc = "dispatch"
    /\ args.action = "render"
    /\ FormatOf(args.output) = "" \/ ColorError(args.background_color) # ""
    /\ fmt' = FormatOf(args.output)
    /\ err' = IF FormatOf(args.output) = "" THEN "Unrecognized file extension for output!"
              ELSE ColorError(args.background_color)
    /\ pc' = "raised"
    /\ UNCHANGED <<swf_location, requested_width, requested_height, aspectvars, transform,
                   images, written>>
    /\ UNCHANGED <<args, loadvars, flatvars, calls, stdout, stderr>>

\* swf_location = renderer.compute_path_location(args.path)
\* requested_width = swf_location.width; requested_height = swf_location.height
RenderLocation ==
    /\ pc = "location"
    /\ calls' = calls \cup {"compute_path_location"}
    /\ swf_location' = [width |-> FromInt(args.location[1]),
                        height |-> FromInt(args.location[2])]
    /\ requested_width' = FromInt(args.location[1])
    /\ requested_height' = FromInt(args.location[2])
    /\ pc' = "aspect"
    /\ UNCHANGED <<fmt, aspectvars, transform, images, written>>
    /\ UNCHANGED <<args, loadvars, flatvars, stdout, stderr, err>>

\* if args.force_aspect_ratio: is false
AspectNone ==
    /\ pc = "aspect"
    /\ args.force_aspect_ratio = None
    /\ pc' = "scale"
    /\ UNCHANGED rendervars
    /\ UNCHANGED <<args, loadvars, flatvars, calls, stdout, stderr, err>>

\* What is wrong with args.force_aspect_ratio (the values between its colons,
\* as numbers), "" when nothing is.
AspectError(ratio) ==
    IF Len(ratio) # 2
    THEN "Invalid aspect ratio, specify a ratio such as 16:9 or 4:3!"
    ELSE IF ratio[1] <= 0 \/ ratio[2] <= 0
    THEN "Ratio must only include positive numbers!"
    ELSE ""

\* the complaint about the ratio is noted and the render goes on
AspectWarn ==
    /\ pc = "aspect"
    /\ args.force_aspect_ratio # None
    /\ AspectError(args.force_aspect_ratio[1]) # ""
    /\ err' = AspectError(args.force_aspect_ratio[1])
    /\ pc' = "scale"
    /\ UNCHANGED rendervars
    /\ UNCHANGED <<args, loadvars, flatvars, calls, stdout, stderr>>

\* if len(ratio) != 2: raise ... / if rx <= 0 or ry <= 0: raise ...
AspectRaise ==
    /\ pc = "aspect"
    /\ args.force_aspect_ratio # None
    /\ AspectError(args.force_aspect_ratio[1]) # ""
    /\ err' = AspectError(args.force_aspect_ratio[1])
    /\ pc' = "raised"
    /\ UNCHANGED rendervars
    /\ UNCHANGED <<args, loadvars, flatvars, calls, stdout, stderr>>

\* actual_ratio = rx / ry
ActualRatio(rx, ry) == FDiv(rx, ry)

\* swf_ratio = swf_location.width / swf_location.height
SwfRatio(loc) == FDiv(loc.width, loc.height)

\* rx, ry = [float(r.strip()) for r in ratio]; actual_ratio = ...; swf_ratio = ...
AspectRatios ==
    /\ pc = "aspect"
    /\ args.force_aspect_ratio # None
    /\ AspectError(args.force_aspect_ratio[1]) = ""
    /\ actual_ratio' = Some(ActualRatio(FromInt(args.force_aspect_ratio[1][1]),
                                        FromInt(args.force_aspect_ratio[1][2])))
    /\ swf_ratio' = Some(SwfRatio(swf_location))
    /\ pc' = "ratio"
    /\ UNCHANGED <<fmt, swf_location, requested_width, requested_height, new_width, new_height,
                   transform, images, written>>
    /\ UNCHANGED <<args, loadvars, flatvars, calls, stdout, stderr, err>>

\* 0.0001
Tolerance == FDiv(FromInt(1), FromInt(10000))

\* abs(swf_ratio - actual_ratio) > 0.0001
RatioDiffers(s, r) == FGt(FAbsDiff(s, r), Tolerance)

\* the forced ratio is within 0.0001 of the natural one: nothing to do
AspectSame ==
    /\ pc = "ratio"
    /\ ~RatioDiffers(swf_ratio[1], actual_ratio[1])
    /\ pc' = "scale"
    /\ UNCHANGED rendervars
    /\ UNCHANGED <<args, loadvars, flatvars, calls, stdout, stderr, err>>

\* swf_location.height / actual_ratio: a candidate that falls as the ratio grows
NewWidthOver(loc, r) == FDiv(loc.height, r)

\* new_width = actual_ratio * swf_location.height
NewWidth(loc, r) == FMul(r, loc.height)

\* swf_location.width * actual_ratio: a candidate that grows with the ratio
NewHeightTimes(loc, r) == FMul(loc.width, r)

\* new_height = swf_location.width / actual_ratio
NewHeight(loc, r) == FDiv(loc.width, r)

AspectCandidates ==
    /\ pc = "ratio"
    /\ RatioDiffers(swf_ratio[1], actual_ratio[1])
    /\ new_width' = Some(NewWidth(swf_location, actual_ratio[1]))
    /\ new_height' = Some(NewHeight(swf_location, actual_ratio[1]))
    /\ pc' = "choose"
    /\ UNCHANGED <<fmt, swf_location, requested_width, requested_height, actual_ratio,
                   swf_ratio, transform, images, written>>
    /\ UNCHANGED <<args, loadvars, flatvars, calls, stdout, stderr, err>>

\* if new_width < swf_location.width and new_height < swf_location.height: raise
\* if new_width > swf_location.width and new_height > swf_location.height: raise
Impossible(loc, nw, nh) ==
    \/ FLt(nw, loc.width) /\ FLt(nh, loc.height)
    \/ FGt(nw, loc.width) /\ FGt(nh, loc.height)

\* new_width < swf_location.width: the choice that shrinks
PickWidthSmaller(loc, nw) == FLt(nw, loc.width)

\* if new_width > swf_location.width
PickWidth(loc, nw) == FGt(nw, loc.width)

\* raise Exception("Impossible aspect ratio!"), or else
\* if new_width > swf_location.width: requested_width = new_width
\* else: requested_height = new_height
AspectStretch ==
    /\ pc = "choose"
    /\ IF Impossible(swf_location, new_width[1], new_height[1])
       THEN /\ err' = "Impossible aspect ratio!"
            /\ pc' = "raised"
            /\ UNCHANGED <<requested_width, requested_height>>
       ELSE /\ IF PickWidth(swf_location, new_width[1])
               THEN requested_width' = new_width[1] /\ UNCHANGED requested_height
               ELSE requested_height' = new_height[1] /\ UNCHANGED requested_width
            /\ pc' = "scale"
            /\ UNCHANGED err
    /\ UNCHANGED <<fmt, swf_location, aspectvars, transform, images, written>>
    /\ UNCHANGED <<args, loadvars, flatvars, calls, stdout, stderr>>

\* requested_width *= args.scale_width; requested_height *= args.scale_height;
\* transform = Matrix(a=requested_width / swf_location.width, b=0.0, c=0.0,
\*                    d=requested_height / swf_location.height, tx=0.0, ty=0.0)
RenderTransform ==
    /\ pc = "scale"
    /\ requested_width' = FMul(requested_width, args.scale_width)
    /\ requested_height' = FMul(requested_height, args.scale_height)
    /\ transform' = [a |-> FDiv(requested_width', swf_location.width),
                     b |-> FZero,
                     c |-> FZero,
                     d |-> FDiv(requested_height', swf_location.height),
                     tx |-> FZero,
                     ty |-> FZero]
    /\ pc' = "render"
    /\ UNCHANGED <<fmt, swf_location, aspectvars, images, written>>
    /\ UNCHANGED <<args, loadvars, flatvars, calls, stdout, stderr, err>>

\* duration, images = renderer.render_path(args.path, ..., movie_transform=transform)
RenderPath ==
    /\ pc = "render"
    /\ calls' = calls \cup {"render_path"}
    /\ images' = Some(args.frames)
    /\ pc' = "export"
    /\ UNCHANGED <<fmt, swf_location, requested_width, requested_height, aspectvars, transform,
                   written>>
    /\ UNCHANGED <<args, loadvars, flatvars, stdout, stderr, err>>

\* Without the check of len(images) the animated layout would open its file
\* and die of images[0].
ExportUnchecked ==
    /\ pc = "export"
    /\ images[1] = 0
    /\ written' = Append(written, args.output)
    /\ err' = "IndexError"
    /\ pc' = "raised"
    /\ UNCHANGED <<fmt, swf_location, requested_width, requested_height, aspectvars, transform,
                   images>>
    /\ UNCHANGED <<args, loadvars, flatvars, calls, stdout, stderr>>

\* if len(images) == 0: raise Exception("Did not render any frames!")
ExportRaise ==
    /\ pc = "export"
    /\ images[1] = 0
    /\ err' = "Did not render any frames!"
    /\ pc' = "raised"
    /\ UNCHANGED rendervars
    /\ UNCHANGED <<args, loadvars, flatvars, calls, stdout, stderr>>

\* if fmt in ["GIF", "WEBP"]: with open(args.output, "wb") as bfp: images[0].save(...)
ExportAnimation ==
    /\ pc = "export"
    /\ images[1] # 0
    /\ fmt \in {"GIF", "WEBP"}
    /\ written' = Append(written, args.output)
    /\ stdout' = stdout + 1
    /\ pc' = Flow("action", ci)
    /\ UNCHANGED <<fmt, swf_location, requested_width, requested_height, aspectvars, transform,
                   images>>
    /\ UNCHANGED <<args, loadvars, flatvars, calls, stderr, err>>

\* a width of one digit whatever the number of frames
LogZero(n) == 0

\* int(math.log10(frames)) for frames >= 1: below 10^15 the float logarithm
\* has the integer part of the exact one
RECURSIVE Log10(_)
Log10(n) == IF n < 10 THEN 0 ELSE 1 + Log10(n \div 10)

DigitChar(d) == <<"0", "1", "2", "3", "4", "5", "6", "7", "8", "9">>[d + 1]

\* str(n) for n >= 0
RECURSIVE Decimal(_)
Decimal(n) == IF n < 10 THEN <<DigitChar(n)>> ELSE Decimal(n \div 10) \o <<DigitChar(n % 10)>>

\* f"{n:0{width}}": zero-padded on the left to at least width characters
ZeroPadded(n, width) ==
    [k \in 1..(width - Len(Decimal(n))) |-> "0"] \o Decimal(n)

\* fullname = f"{filename}-{i:{digits}}{ext}", filename = args.output[:-4],
\* ext = args.output[-4:], digits = f"0{int(math.log10(frames)) + 1}"
FrameName(output, frames, k) ==
    SliceOffEnd(output, 4) \o <<"-">> \o ZeroPadded(k, Log10(frames) + 1)
        \o SubSeq(output, Len(output) - 3, Len(output))

\* else: for i, img in enumerate(images): with open(fullname, "wb") as bfp: img.save(...)
ExportFrames ==
    /\ pc = "export"
    /\ images[1] # 0
    /\ fmt \notin {"GIF", "WEBP"}
    /\ written' = written \o [k \in 1..images[1] |-> FrameName(args.output, images[1], k - 1)]
    /\ stdout' = stdout + images[1]
    /\ pc' = Flow("action", ci)
    /\ UNCHANGED <<fmt, swf_location, requested_width, requested_height, aspectvars, transform,
                   images>>
    /\ UNCHANGED <<args, loadvars, flatvars, calls, stderr, err>>

Render ==
    \/ RenderParams \/ RenderParamsRaise \/ RenderLocation
    \/ AspectNone \/ AspectRaise \/ AspectRatios \/ AspectSame \/ AspectCandidates
    \/ AspectStretch
    \/ RenderTransform \/ RenderPath
    \/ ExportRaise \/ ExportAnimation \/ ExportFrames

\* ------------------------------------------------------------------ write_bytecode: inputs
\* A text is a sequence of lines and a line is a sequence of strings (its
\* pieces): buff holds texts, one per block.

\* How many tags the root clip of a movie holds at most.
MaxTags == 2

\* A bytecode object, named after the clip that owns it (0 is the root), the
\* place it hangs at and its position there.
Bytecode(owner, place, n) == <<place, ToString(owner), ToString(n)>>

\* bytecode.decompile(verbose=verbose): the text of that object, one line
Decompile(bytecode) == <<bytecode>>

\* Every Tag has all the fields; a kind reads only its own.
Tag(kind, bytecode, triggers, labels, frames, tags) ==
    [kind |-> kind, bytecode |-> bytecode, triggers |-> triggers, labels |-> labels,
     frames |-> frames, tags |-> tags]

DoActionTag(owner) ==
    Tag("AP2DoActionTag", Bytecode(owner, "action", 0), <<>>, <<>>, <<>>, <<>>)

\* tag.triggers is a dict event -> list of bytecode, here its items in
\* insertion order: event 2 was inserted before event 1.
PlaceObjectTag(owner) ==
    Tag("AP2PlaceObjectTag", <<>>,
        << <<2, <<Bytecode(owner, "trigger", 0), Bytecode(owner, "trigger", 1)>>>>,
           <<1, <<Bytecode(owner, "trigger", 2)>>>> >>,
        <<>>, <<>>, <<>>)

\* a tag of any other class
OtherTag == Tag("AP2ShapeTag", <<>>, <<>>, <<>>, <<>>, <<>>)

DefineSpriteTag(labels, frames, tags) ==
    Tag("AP2DefineSpriteTag", <<>>, <<>>, labels, frames, tags)

\* clip.labels is a dict name -> frame, here its items in insertion order.
\* Every clip names its frames its own way, so that two clips share names
\* but not frame numbers.
LabelsOf(owner, v) ==
    CASE v = 0 -> <<>>
      [] v = 1 -> << <<"a", owner>> >>
      [] v = 2 -> << <<"b", 10 + owner>>, <<"a", owner>> >>

\* clip.frames: frames with imported tags, some of which carry init bytecode
FramesOf(owner, v) ==
    CASE v = 0 -> <<>>
      [] v = 1 -> << [imported_tags |-> << [init_bytecode |-> None],
                                          [init_bytecode |-> Some(Bytecode(owner, "init", 0))] >>],
                     [imported_tags |-> << [init_bytecode |-> Some(Bytecode(owner, "init", 1))] >>] >>

\* sprites that hold no sprite
InnerSprites ==
    { DefineSpriteTag(LabelsOf(1, lv), FramesOf(1, fv), <<DoActionTag(1)>>) :
        lv \in 0..2, fv \in 0..1 }

\* sprites that hold a sprite, and a tag after it
OuterSprites ==
    { DefineSpriteTag(LabelsOf(2, lv), FramesOf(2, 1), <<s, PlaceObjectTag(2)>>) :
        lv \in 1..2, s \in {t \in InnerSprites : t.frames # <<>>} }

RootTags == {DoActionTag(0), PlaceObjectTag(0), OtherTag} \cup InnerSprites \cup OuterSprites

\* the sequences over S of length n
RECURSIVE Lists(_, _)
Lists(S, n) ==
    IF n = 0 THEN { <<>> } ELSE { Append(l, x) : l \in Lists(S, n - 1), x \in S }

\* the SWFs write_bytecode is called with
Clips ==
    { [labels |-> LabelsOf(0, lv), frames |-> FramesOf(0, fv), tags |-> t] :
        lv \in 0..2, fv \in 0..1, t \in UNION { Lists(RootTags, n) : n \in 0..MaxTags } }

\* ------------------------------------------------------------------ write_bytecode

\* d.setdefault(k, v): a key the dict has keeps its value
DictSetDefault(d, k, v) ==
    IF \E j \in 1..Len(d) : d[j][1] = k THEN d ELSE Append(d, <<k, v>>)

\* d[k] = v on a dict kept as its items in insertion order: a key the dict
\* has keeps its place and takes the new value, a new key goes last.
DictSet(d, k, v) ==
    IF \E j \in 1..Len(d) : d[j][1] = k
    THEN [j \in 1..Len(d) |-> IF d[j][1] = k THEN <<k, v>> ELSE d[j]]
    ELSE Append(d, <<k, v>>)

\* d.update(other)
RECURSIVE DictUpdate(_, _)
DictUpdate(d, other) ==
    IF other = <<>> THEN d
    ELSE DictUpdate(DictSet(d, Head(other)[1], Head(other)[2]), Tail(other))

\* the concatenation of a sequence of sequences
RECURSIVE Concat(_)
Concat(ss) == IF ss = <<>> THEN <<>> ELSE Head(ss) \o Concat(Tail(ss))

\* for tag in frame.imported_tags: if tag.init_bytecode: buff.append(...decompile())
FrameBlocks(frame) ==
    LET carrying == SelectSeq(frame.imported_tags, LAMBDA t : t.init_bytecode # None)
    IN [k \in 1..Len(carrying) |-> Decompile(carrying[k].init_bytecode[1])]

\* bytecode_from_frames(frames): what it appends to buff
BytecodeFromFrames(frames) == Concat([k \in 1..Len(frames) |-> FrameBlocks(frames[k])])

\* for _, triggers in tag.triggers.items(): for trigger in triggers:
\*     buff.append(trigger.decompile(verbose=verbose))
TriggerBlocks(triggers) ==
    Concat([k \in 1..Len(triggers) |->
              [n \in 1..Len(triggers[k][2]) |-> Decompile(triggers[k][2][n])]])

\* the call of bytecode_from_tags(tags), about to look at its first tag
Call(tags) == [tags |-> tags, k |-> 0]

\* The call stack once the running call (the last of the stack) has moved to
\* its next tag.
Advance(st) == [st EXCEPT ![Len(st)].k = @ + 1]

\* the tag the running call of bytecode_from_tags looks at
TagAt(st) == st[Len(st)].tags[st[Len(st)].k + 1]

\* the running call still has a tag to look at
HasTag(st) == st # <<>> /\ st[Len(st)].k < Len(st[Len(st)].tags)

\* A nested list that was queued, to run once every running call is over.
EnterLater(st, tags) == <<Call(tags)>> \o Advance(st)

\* bytecode_from_tags(tag.tags), called from the loop of the running call: it
\* runs to its end before the running call goes on with its next tag
Enter(st, tags) == Append(Advance(st), Call(tags))

\* buff: List[str] = []; lut: Dict[str, int] = {}; lut.update(swf.labels);
\* bytecode_from_frames(swf.frames); bytecode_from_tags(swf.tags)
WriteBytecode ==
    /\ pc = "write_bytecode"
    /\ lut' = DictUpdate(<<>>, swf.labels)
    /\ buff' = BytecodeFromFrames(swf.frames)
    /\ stack' = <<Call(swf.tags)>>
    /\ pc' = "tags"
    /\ UNCHANGED <<swf, code>>
    /\ UNCHANGED <<args, loadvars, rendervars, calls, stdout, stderr, err>>

\* if isinstance(tag, AP2DoActionTag): buff.append(tag.bytecode.decompile(verbose=verbose))
TagDoAction ==
    /\ pc = "tags"
    /\ HasTag(stack)
    /\ TagAt(stack).kind = "AP2DoActionTag"
    /\ buff' = Append(buff, Decompile(TagAt(stack).bytecode))
    /\ stack' = Advance(stack)
    /\ UNCHANGED <<swf, lut, code>>
    /\ UNCHANGED <<args, pc, loadvars, rendervars, calls, stdout, stderr, err>>

\* elif isinstance(tag, AP2PlaceObjectTag): ... buff.append(trigger.decompile(...))
TagPlaceObject ==
    /\ pc = "tags"
    /\ HasTag(stack)
    /\ TagAt(stack).kind = "AP2PlaceObjectTag"
    /\ buff' = buff \o TriggerBlocks(TagAt(stack).triggers)
    /\ stack' = Advance(stack)
    /\ UNCHANGED <<swf, lut, code>>
    /\ UNCHANGED <<args, pc, loadvars, rendervars, calls, stdout, stderr, err>>

\* elif isinstance(tag, AP2DefineSpriteTag): lut.update(tag.labels);
\*     bytecode_from_frames(tag.frames); bytecode_from_tags(tag.tags)
TagDefineSprite ==
    /\ pc = "tags"
    /\ HasTag(stack)
    /\ TagAt(stack).kind = "AP2DefineSpriteTag"
    /\ lut' = DictUpdate(lut, TagAt(stack).labels)
    /\ buff' = buff \o BytecodeFromFrames(TagAt(stack).frames)
    /\ stack' = Enter(stack, TagAt(stack).tags)
    /\ UNCHANGED <<swf, code>>
    /\ UNCHANGED <<args, pc, loadvars, rendervars, calls, stdout, stderr, err>>

\* a tag of no branch of the if
TagOther ==
    /\ pc = "tags"
    /\ HasTag(stack)
    /\ TagAt(stack).kind \notin {"AP2DoActionTag", "AP2PlaceObjectTag", "AP2DefineSpriteTag"}
    /\ stack' = Advance(stack)
    /\ UNCHANGED <<swf, lut, buff, code>>
    /\ UNCHANGED <<args, pc, loadvars, rendervars, calls, stdout, stderr, err>>

\* the for loop of the running call is over: bytecode_from_tags returns
TagsReturn ==
    /\ pc = "tags"
    /\ stack # <<>>
    /\ ~HasTag(stack)
    /\ stack' = SubSeq(stack, 1, Len(stack) - 1)
    /\ pc' = IF Len(stack) = 1 THEN "labels" ELSE "tags"
    /\ UNCHANGED <<swf, lut, buff, code>>
    /\ UNCHANGED <<args, loadvars, rendervars, calls, stdout, stderr, err>>

\* f"    {name!r}: {frame},"
LabelLine(name, frame) == <<"    ", "'", name, "'", ": ", ToString(frame), ",">>

\* the declaration block put first whether or not there is a label
WithLabelsAlways(l, b) ==
    << << <<"// Defined frame labels from SWF container, as used for frame lookups.">>,
          <<"FRAME_LUT = {">> >>
       \o [k \in 1..Len(l) |-> LabelLine(l[k][1], l[k][2])]
       \o << <<"};">> >> >> \o b

\* if lut: buff = [os.linesep.join(['// Defined ...', 'FRAME_LUT = {', *[...], '};']), *buff]
WithLabels(l, b) ==
    IF l # <<>>
    THEN << << <<"// Defined frame labels from SWF container, as used for frame lookups.">>,
               <<"FRAME_LUT = {">> >>
            \o [k \in 1..Len(l) |-> LabelLine(l[k][1], l[k][2])]
            \o << <<"};">> >> >> \o b
    ELSE b

\* the file written: f"{os.linesep}{os.linesep}".join(buff), as its lines
RECURSIVE JoinBlocks(_)
JoinBlocks(b) ==
    IF b = <<>> THEN <<>>
    ELSE IF Len(b) = 1 THEN b[1]
    ELSE b[1] \o << <<>> >> \o JoinBlocks(Tail(b))

\* if lut: ...; print(f"Writing code to {filename}..."); bfp.write(...join(buff)...)
WriteCode ==
    /\ pc = "labels"
    /\ buff' = WithLabels(lut, buff)
    /\ code' = Some(JoinBlocks(buff'))
    /\ stdout' = stdout + 1
    /\ pc' = "done"
    /\ UNCHANGED <<swf, stack, lut>>
    /\ UNCHANGED <<args, loadvars, rendervars, calls, stderr, err>>

Flatten ==
    \/ WriteBytecode \/ TagDoAction \/ TagPlaceObject \/ TagDefineSprite \/ TagOther
    \/ TagsReturn \/ WriteCode

\* ------------------------------------------------------------------ specification

\* The largest width, height and ratio term of the planner's grid of inputs.
MaxDim == 5

\* How many images render_path() returns at most.
MaxFrames == 12

OutGif == <<"o", ".", "g", "i", "f">>

OutWebp == <<"o", ".", "W", "E", "B", "P">>

OutPng == <<"o", ".", "p", "n", "g">>

OutTxt == <<"o", ".", "t", "x", "t">>

\* A command line, with what the environment answers for it: location is the
\* width and height compute_path_location() returns for args.path, frames is
\* how many images render_path() returns. The scale factors are floats; the
\* color and the aspect ratio are their values once split and parsed.
Args(action, verbose, ncontainers, output, color, aspect, scale, location, frames) ==
    [action |-> action, verbose |-> verbose, ncontainers |-> ncontainers,
     output |-> output, background_color |-> color, force_aspect_ratio |-> aspect,
     scale_width |-> scale[1], scale_height |-> scale[2],
     location |-> location, frames |-> frames]

One == FromInt(1)

Two == FromInt(2)

\* render o.png --force-aspect-ratio 4:3 of a 800x450 movie of two frames
RenderArgs(n) ==
    Args("render", FALSE, n, OutPng, None, Some(<<4, 3>>), <<One, One>>, <<800, 450>>, 2)

\* "render" with no container, each differing from RenderArgs(0) in one option
EdgeArgs ==
    { [RenderArgs(0) EXCEPT !.output = o] : o \in {OutGif, OutWebp, OutTxt} }
    \cup { [RenderArgs(0) EXCEPT !.background_color = Some(c)] :
             c \in {<<0, 0, 0>>, <<1, 2>>, <<0, 0, 256, 0>>} }
    \cup { [RenderArgs(0) EXCEPT !.force_aspect_ratio = a] :
             a \in {None, Some(<<4>>), Some(<<0, 3>>), Some(<<4, -3>>), Some(<<4, 0>>),
                    Some(<<-1, -1>>), Some(<<16, 9>>)} }
    \cup { [RenderArgs(0) EXCEPT !.force_aspect_ratio = Some(<<0, 3>>), !.output = OutGif] }
    \cup { [RenderArgs(0) EXCEPT !.frames = 0, !.output = o] : o \in {OutPng, OutGif} }
    \cup { [RenderArgs(0) EXCEPT !.scale_width = Two] }

\* The command lines of the runs that load containers ("list", verbose or
\* not, and "render"), and the edge cases of "render".
MainArgs ==
    { Args("list", v, n, OutPng, None, None, <<One, One>>, <<800, 450>>, 0) :
        v \in BOOLEAN, n \in 0..MaxContainers }
    \cup { RenderArgs(n) : n \in 0..MaxContainers }
    \cup EdgeArgs

\* "render" of movies of every small size under every small forced ratio,
\* and of movies of every small number of frames
PlanArgs ==
    { [RenderArgs(0) EXCEPT !.location = <<w, h>>, !.force_aspect_ratio = Some(<<rx, ry>>),
                            !.frames = 1] :
        w \in 1..MaxDim, h \in 1..MaxDim, rx \in 1..MaxDim, ry \in 1..MaxDim }
    \cup { [RenderArgs(0) EXCEPT !.frames = n] : n \in 1..MaxFrames }
    \cup EdgeArgs

\* decompile
DecompileArgs ==
    { Args("decompile", FALSE, 0, OutPng, None, None, <<One, One>>, <<800, 450>>, 0) }

\* a clip with no labels, no frames and no tags
EmptyClip == [labels |-> <<>>, frames |-> <<>>, tags |-> <<>>]

InitWith(argset, clips) ==
    /\ args \in argset
    /\ ci = 0
    /\ pc = IF args.action = "decompile" THEN "write_bytecode" ELSE Flow("start", 0)
    /\ data = NoData
    /\ afpfile = None
    /\ ifsfile = None
    /\ i = 0
    /\ shapes = EmptyMap
    /\ textures = EmptyMap
    /\ swfs = EmptyMap
    /\ registered = {}
    /\ calls = {}
    /\ stdout = 0
    /\ stderr = 0
    /\ err = ""
    /\ fmt = ""
    /\ swf_location = [width |-> FZero, height |-> FZero]
    /\ requested_width = FZero
    /\ requested_height = FZero
    /\ actual_ratio = None
    /\ swf_ratio = None
    /\ new_width = None
    /\ new_height = None
    /\ transform = [a |-> FZero, b |-> FZero, c |-> FZero, d |-> FZero, tx |-> FZero,
                    ty |-> FZero]
    /\ images = None
    /\ written = <<>>
    /\ swf \in clips
    /\ stack = <<>>
    /\ lut = <<>>
    /\ buff = <<>>
    /\ code = None

Init == InitWith(MainArgs, {EmptyClip})

Load ==
    \/ ReadContainer \/ ParseTXP2 \/ NotTXP2 \/ ParseIFS \/ NotIFS
    \/ AddShape \/ ShapesDone
    \/ RegionRaise \/ RegionLookupRaise \/ AddRegion \/ SkipRegion \/ RegionsDone
    \/ AddSwf \/ SwfsDone
    \/ IfsAddShape \/ IfsAddTexture \/ IfsAddSwf \/ IfsIgnore \/ IfsDone

Next == Load \/ ListPaths \/ Render

\* main() for "render" and "list"
Spec == Init /\ [][Next]_vars

\* main() for "render" with no container: the transform planner and the export
SpecPlan == InitWith(PlanArgs, {EmptyClip}) /\ [][Render]_vars

\* main() for "decompile": write_bytecode
SpecFlatten == InitWith(DecompileArgs, Clips) /\ [][Flatten]_vars

\* ------------------------------------------------------------------ properties: the normalizer

\* the renderer's three libraries by name
Library(ns) ==
    CASE ns = "shapes" -> shapes [] ns = "textures" -> textures [] ns = "swfs" -> swfs

\* the add_* calls made so far for one name of one library
EventsOf(ns, name) == {e \in registered : e.ns = ns /\ e.name = name}

\* the last container, in argument order, that registered the name
LastRegistrar(ns, name) ==
    CHOOSE m \in {e.asset.src : e \in EventsOf(ns, name)} :
        \A e \in EventsOf(ns, name) : e.asset.src <= m

\* C1: at every point of the loading, and so once every container is loaded,
\* each library holds exactly the names registered so far and maps each of
\* them to an asset registered by the last container, in argument order, that
\* registered that name.
C1_LastWriteWins ==
    \A ns \in {"shapes", "textures", "swfs"} :
        /\ DOMAIN Library(ns) = {e.name : e \in {r \in registered : r.ns = ns}}
        /\ \A name \in DOMAIN Library(ns) :
              /\ Event(ns, name, Library(ns)[name]) \in registered
              /\ Library(ns)[name].src = LastRegistrar(ns, name)

\* C1: both containers are loaded, the first (a TXP2 container) and the
\* second (an IFS container) registered clip "X", and "X" is the second's.
C1_Witness ==
    /\ pc = "dispatch"
    /\ ci = 2
    /\ NameX \in DOMAIN swfs
    /\ {e.asset.src : e \in EventsOf("swfs", NameX)} = {1, 2}
    /\ \E e \in EventsOf("swfs", NameX) : e.asset.src = 1 /\ e.asset.kind = "swf"
    /\ swfs[NameX].src = 2
    /\ swfs[NameX].kind = "SWF"

\* the region loop is at an entry whose index the region table does not have
AtOutOfBoundsRegion ==
    /\ pc = "regions"
    /\ i < Len(afpfile[1].regionmap)
    /\ ~(0 <= i /\ i < Len(afpfile[1].texture_to_region))

\* C7: a region map entry whose index is not within 0 <= i < len(regions)
\* makes the next step raise "Out of bounds region" with nothing registered;
\* nothing runs after a raise, so no later region and no clip of the
\* container is registered; and no render or list call was or is made.
C7_OutOfBoundsRegionFatal ==
    /\ [][AtOutOfBoundsRegion =>
            /\ pc' = "raised"
            /\ err' = "Out of bounds region"
            /\ UNCHANGED <<shapes, textures, swfs, registered, calls>>]_vars
    /\ [][pc # "raised"]_vars
    /\ [](err = "Out of bounds region" => pc = "raised" /\ calls = {})

\* C7: the second entry of a region map was out of bounds, after the first
\* was registered: main() died of it with no clip of the container loaded.
C7_Witness ==
    /\ pc = "raised"
    /\ err = "Out of bounds region"
    /\ i = 1
    /\ Len(afpfile[1].swfmap) = 1
    /\ \E e \in registered : e.ns = "textures" /\ e.asset.src = ci + 1
    /\ ~\E e \in registered : e.ns = "swfs" /\ e.asset.src = ci + 1

\* the sheet of the k-th region (k = 1, 2, ...) of the container being loaded
SheetAt(k) == SheetOf(afpfile[1], afpfile[1].texture_to_region[k])

\* the region loop is at an entry whose texture has no decoded image
AtUndecodedRegion ==
    /\ pc = "regions"
    /\ i < Len(afpfile[1].regionmap)
    /\ i < Len(afpfile[1].texture_to_region)
    /\ SheetAt(i + 1) # None
    /\ SheetAt(i + 1)[1].img = None

\* the container being loaded has reached the end of its last loop
AtContainerEnd == pc = "swfs" /\ i = Len(afpfile[1].swfmap)

\* the container being loaded registered its k-th region under its name
RegionRegistered(k) ==
    \E e \in registered :
        /\ e.ns = "textures"
        /\ e.name = afpfile[1].regionmap[k]
        /\ e.asset.src = ci + 1
        /\ e.asset.idx = SheetAt(k)[1].img[1]
        /\ e.asset.box = CropBox(afpfile[1].texture_to_region[k])

\* the container being loaded registered its k-th clip under its name
ClipRegistered(k) ==
    \E e \in registered :
        /\ e.ns = "swfs"
        /\ e.name = afpfile[1].swfmap[k]
        /\ e.asset.src = ci + 1
        /\ e.asset.idx = afpfile[1].swfdata[k]

\* C8: at a region whose texture has no decoded image the next step registers
\* nothing, prints one diagnostic line, raises nothing and moves to the next
\* region; a container that reaches its end has registered every region whose
\* texture has a decoded image and every clip; and from its end the loop goes
\* on to the next container, or to the render/list block after the last.
C8_UndecodedTextureSkipped ==
    /\ [][AtUndecodedRegion =>
            /\ UNCHANGED <<shapes, textures, swfs, registered, err, ci, pc>>
            /\ stdout' = stdout + 1
            /\ i' = i + 1]_vars
    /\ [](AtContainerEnd =>
            /\ err = ""
            /\ \A k \in 1..Len(afpfile[1].regionmap) :
                  SheetAt(k)[1].img # None => RegionRegistered(k)
            /\ \A k \in 1..Len(afpfile[1].swfmap) : ClipRegistered(k))
    /\ [][AtContainerEnd =>
            /\ ci' = ci + 1
            /\ pc' = IF ci + 1 < args.ncontainers THEN "loop" ELSE "dispatch"]_vars

\* C8: the first container reached its end with its first region skipped (one
\* line printed, its name unregistered), its second region and its clip
\* registered, and a second container to come.
C8_Witness ==
    /\ AtContainerEnd
    /\ ci = 0
    /\ args.ncontainers = 2
    /\ Len(afpfile[1].regionmap) = 2
    /\ Len(afpfile[1].swfmap) = 1
    /\ SheetAt(1)[1].img = None
    /\ SheetAt(2)[1].img # None
    /\ stdout = 1
    /\ DOMAIN textures = {afpfile[1].regionmap[2]}
    /\ DOMAIN swfs = {afpfile[1].swfmap[1]}

\* the container read parsed as neither family
AtUnrecognized == pc \in {"txp2", "ifs"} /\ data.txp2 = None /\ data.ifs = None

\* C9: while main() handles a container that parses neither as TXP2 nor as
\* IFS, no step changes a library, registers, prints, raises or calls the
\* renderer; the failed TXP2 parse leads to the IFS parse and the failed IFS
\* parse to the next container (or to the render/list block after the last).
C9_UnrecognizedContainerIgnored ==
    [][AtUnrecognized =>
         /\ UNCHANGED <<shapes, textures, swfs, registered, stdout, stderr, err, calls>>
         /\ pc = "txp2" => pc' = "ifs" /\ ci' = ci
         /\ pc = "ifs" =>
               /\ ci' = ci + 1
               /\ pc' = IF ci + 1 < args.ncontainers THEN "loop" ELSE "dispatch"]_vars

\* C9: a verbose run of two containers is at its render/list block, and all
\* that was registered or printed is the second container's: the first was
\* of neither family (a container of a family prints a line of its own).
C9_Witness ==
    /\ args.verbose
    /\ pc = "dispatch"
    /\ ci = 2
    /\ registered # {}
    /\ \A e \in registered : e.asset.src = 2
    /\ stderr = 1 + Cardinality(registered)
    /\ stdout = 0
    /\ err = ""

\* C10: once the renderer was called (compute_path_location, render_path or
\* list_paths) no step changes a library or registers anything.
C10_NamespaceFrozen ==
    [][calls # {} => UNCHANGED <<shapes, textures, swfs, registered>>]_vars

\* C10: a render of two containers is over: the registrations of both were
\* made, then the renderer was called.
C10_Witness ==
    /\ pc = "done"
    /\ "render_path" \in calls
    /\ ci = 2
    /\ \E e \in registered : e.asset.src = 1
    /\ \E e \in registered : e.asset.src = 2

\* ------------------------------------------------------------------ properties: the transform planner

\* 2^-50: eight units in the last place of a float in [1, 2)
Rounding == Round(BigOf(1), FALSE, -50)

\* x is y up to the rounding of a few float operations
Close(x, y) == ~FGt(FAbsDiff(x, y), FMul(y, Rounding))

\* the candidates are computed: the forced ratio is more than 0.0001 away
\* from the natural one
HasCandidates == new_width # None

\* candidateW * candidateH
CandidateArea == FMul(new_width[1], new_height[1])

\* w * h
NaturalArea == FMul(swf_location.width, swf_location.height)

\* exactly one of candidateW > w and candidateH > h
OneAxisStretched ==
    FGt(new_width[1], swf_location.width) # FGt(new_height[1], swf_location.height)

\* C5, as the claim states it: the candidates' area is the natural area,
\* exactly, and exactly one candidate is larger than its natural value.
C5_AreaPreservedExactly ==
    HasCandidates => FCmp(CandidateArea, NaturalArea) = 0 /\ OneAxisStretched

\* C5, restated: for widths, heights and ratio terms that are small positive
\* integers (and 800x450 at 4:3), whenever the candidates are computed exactly
\* one of them is larger than its natural value, and their area is the
\* natural area up to float rounding (a relative error of at most 2^-50).
C5_AreaPreservedUpToRounding ==
    HasCandidates => Close(CandidateArea, NaturalArea) /\ OneAxisStretched

\* C5: candidates whose area is not the natural area (w = 1, h = 3 at 1:5
\* gives 0.6000000000000001 * 5.0 = 3.0000000000000004), one of them larger.
C5_Witness ==
    /\ HasCandidates
    /\ FCmp(CandidateArea, NaturalArea) # 0
    /\ OneAxisStretched

\* the forced ratio was applied, and the scale factors not yet
Forced == pc = "scale" /\ HasCandidates

\* exactly one of the requested width and height is changed, to a larger value
StretchedOnly ==
    /\ (FCmp(requested_width, swf_location.width) = 0)
         # (FCmp(requested_height, swf_location.height) = 0)
    /\ ~FLt(requested_width, swf_location.width)
    /\ ~FLt(requested_height, swf_location.height)

\* natural (800, 450), forced 4:3, scale factors 1.0: the intermediate size
\* is (800, 600) and the transform a = 1.0, d = 4/3 (its nearest float),
\* b = c = tx = ty = 0
Scenario ==
    args = RenderArgs(0) =>
        /\ pc \in {"scale", "render", "export", "done"} =>
              /\ FCmp(requested_width, FromInt(800)) = 0
              /\ FCmp(requested_height, FromInt(600)) = 0
        /\ pc \in {"render", "export", "done"} =>
              transform = [a |-> One, b |-> FZero, c |-> FZero,
                           d |-> FDiv(FromInt(4), FromInt(3)), tx |-> FZero, ty |-> FZero]

\* C6, as the claim states it: a forced ratio more than 0.0001 away from the
\* natural one never raises and changes exactly one of the requested sizes, to
\* a larger value, and the requested width / height is then rx / ry exactly;
\* the 800x450 scenario.
C6_StretchToExactRatio ==
    /\ HasCandidates => err # "Impossible aspect ratio!"
    /\ Forced =>
          /\ StretchedOnly
          /\ FCmp(FDiv(requested_width, requested_height), actual_ratio[1]) = 0
    /\ Scenario

\* C6, restated: the same (small positive integer sizes and ratio terms, and
\* the scenario), but the requested width / height is rx / ry up to float
\* rounding (a relative error of at most 2^-50).
C6_StretchToRatio ==
    /\ HasCandidates => err # "Impossible aspect ratio!"
    /\ Forced =>
          /\ StretchedOnly
          /\ Close(FDiv(requested_width, requested_height), actual_ratio[1])
    /\ Scenario

\* C6: the scenario's run is over with the height stretched to 600 and d = 4/3.
C6_Witness ==
    /\ args = RenderArgs(0)
    /\ pc = "done"
    /\ HasCandidates
    /\ FCmp(requested_height, FromInt(600)) = 0
    /\ FCmp(requested_width, swf_location.width) = 0
    /\ FCmp(transform.d, FDiv(FromInt(4), FromInt(3))) = 0

\* ------------------------------------------------------------------ properties: the flattener

IsSprite(tag) == tag.kind = "AP2DefineSpriteTag"

\* The clips of a movie in depth-first pre-order: the clip, then for each of
\* its tags in order, if it is a DefineSprite, the clips of that sprite.
RECURSIVE ClipsPreOrder(_), ClipsOfTags(_)
ClipsPreOrder(clip) == <<clip>> \o ClipsOfTags(clip.tags)

ClipsOfTags(tags) ==
    IF tags = <<>> THEN <<>>
    ELSE (IF IsSprite(Head(tags)) THEN ClipsPreOrder(Head(tags)) ELSE <<>>)
         \o ClipsOfTags(Tail(tags))

\* the labels of the visited clips, one after the other
VisitedLabels(clip) ==
    LET visited == ClipsPreOrder(clip)
    IN Concat([k \in 1..Len(visited) |-> visited[k].labels])

\* The merge of a sequence of (name, frame) items: the names in the order
\* they first appear, each with the frame of its last appearance.
Merged(items) ==
    LET first == {k \in 1..Len(items) : \A j \in 1..(k - 1) : items[j][1] # items[k][1]}
        nth(m) == CHOOSE k \in first : Cardinality({j \in first : j < k}) = m - 1
        last(name) == CHOOSE k \in 1..Len(items) :
                          /\ items[k][1] = name
                          /\ \A j \in (k + 1)..Len(items) : items[j][1] # name
    IN [m \in 1..Cardinality(first) |-> <<items[nth(m)][1], items[last(items[nth(m)][1])][2]>>]

\* the frame the table holds for a name it has
FrameOf(table, name) == table[CHOOSE k \in 1..Len(table) : table[k][1] = name][2]

\* the traversal is over
Flattened == pc \in {"labels", "done"}

\* C2: once the traversal is over the label table is the merge of the labels
\* of the visited clips in depth-first pre-order, a later clip's frame
\* replacing an earlier one's; for a clip with no sprite it is the clip's own
\* labels in their order; and for a clip whose only sprite holds no sprite, a
\* name the sprite shares with the clip has the sprite's frame.
C2_LabelTableMerged ==
    Flattened =>
        /\ lut = Merged(VisitedLabels(swf))
        /\ (\A k \in 1..Len(swf.tags) : ~IsSprite(swf.tags[k])) => lut = swf.labels
        /\ \A k \in 1..Len(swf.tags) :
              (/\ IsSprite(swf.tags[k])
               /\ \A j \in 1..Len(swf.tags) : j # k => ~IsSprite(swf.tags[j])
               /\ \A j \in 1..Len(swf.tags[k].tags) : ~IsSprite(swf.tags[k].tags[j]))
              => \A n \in 1..Len(swf.tags[k].labels) :
                    FrameOf(lut, swf.tags[k].labels[n][1]) = swf.tags[k].labels[n][2]

\* C2: a clip labelled b, a is flattened; its sprite, labelled a alone, was
\* visited after it: the table is b, a in the clip's order, a with the
\* sprite's frame.
C2_Witness ==
    /\ pc = "done"
    /\ swf.labels = LabelsOf(0, 2)
    /\ \E k \in 1..Len(swf.tags) : IsSprite(swf.tags[k]) /\ swf.tags[k].labels = LabelsOf(1, 1)
    /\ lut = << <<"b", 10>>, <<"a", 1>> >>

\* the init bytecode of the imported tags of a list of frames, in order
RECURSIVE InitBlocks(_), InitBlocksOfTags(_)
InitBlocks(frames) ==
    IF frames = <<>> THEN <<>>
    ELSE InitBlocksOfTags(Head(frames).imported_tags) \o InitBlocks(Tail(frames))

InitBlocksOfTags(imported) ==
    IF imported = <<>> THEN <<>>
    ELSE (IF Head(imported).init_bytecode # None
          THEN << <<Head(imported).init_bytecode[1]>> >> ELSE <<>>)
         \o InitBlocksOfTags(Tail(imported))

\* the blobs of a trigger table, by event in insertion order then list order
RECURSIVE BlobBlocks(_), EventBlocks(_)
BlobBlocks(blobs) ==
    IF blobs = <<>> THEN <<>> ELSE << <<Head(blobs)>> >> \o BlobBlocks(Tail(blobs))

EventBlocks(events) ==
    IF events = <<>> THEN <<>> ELSE BlobBlocks(Head(events)[2]) \o EventBlocks(Tail(events))

\* The blocks of a clip in depth-first pre-order: its frames' init bytecode,
\* then the blocks of each tag in order, a sprite's being the blocks of its
\* clip, in place.
RECURSIVE BlocksPreOrder(_), BlocksOfTags(_)
BlocksPreOrder(clip) == InitBlocks(clip.frames) \o BlocksOfTags(clip.tags)

BlocksOfTags(tags) ==
    IF tags = <<>> THEN <<>>
    ELSE (CASE Head(tags).kind = "AP2DoActionTag" -> << <<Head(tags).bytecode>> >>
            [] Head(tags).kind = "AP2PlaceObjectTag" -> EventBlocks(Head(tags).triggers)
            [] IsSprite(Head(tags)) -> BlocksPreOrder(Head(tags))
            [] OTHER -> <<>>)
         \o BlocksOfTags(Tail(tags))

\* the last n elements of a sequence
Last(seq, n) == SubSeq(seq, Len(seq) - n + 1, Len(seq))

\* C3: while the tags are traversed the blocks appended so far are the first
\* blocks of the clip's depth-first pre-order; once the traversal is over they
\* are all of them, and they end the program written.
C3_BlocksPreOrder ==
    /\ pc = "tags" =>
          /\ Len(buff) <= Len(BlocksPreOrder(swf))
          /\ buff = SubSeq(BlocksPreOrder(swf), 1, Len(buff))
    /\ pc = "labels" => buff = BlocksPreOrder(swf)
    /\ pc = "done" =>
          /\ Len(buff) >= Len(BlocksPreOrder(swf))
          /\ Last(buff, Len(BlocksPreOrder(swf))) = BlocksPreOrder(swf)

\* C3: a clip with frames, whose first tag is a sprite holding a sprite and
\* whose second tag is a DoAction, is traversed: the sprite's eight blocks
\* stand between the clip's two init blocks and the DoAction's block.
C3_Witness ==
    /\ pc = "labels"
    /\ swf.frames # <<>>
    /\ Len(swf.tags) = 2
    /\ swf.tags[1] \in OuterSprites
    /\ swf.tags[2] = DoActionTag(0)
    /\ Len(buff) = 11
    /\ buff[2] = Decompile(Bytecode(0, "init", 1))
    /\ buff[3] = Decompile(Bytecode(2, "init", 0))
    /\ buff[10] = Decompile(Bytecode(2, "trigger", 2))
    /\ buff[11] = Decompile(Bytecode(0, "action", 0))

\* a block that declares the frame labels
IsDeclaration(block) == Len(block) >= 3 /\ block[2] = <<"FRAME_LUT = {">>

\* C4: the program written starts with a label declaration block if and only
\* if the label table is not empty; no other block is one; the block holds,
\* between its two opening lines and its closing line, one line per entry of
\* the table, in the table's order, with the entry's name and frame, and no
\* name twice; every other block is a bytecode block. The empty clip writes
\* an empty program, with an empty table and no error.
C4_LabelDeclaration ==
    pc = "done" =>
        /\ lut # <<>> <=> (buff # <<>> /\ IsDeclaration(buff[1]))
        /\ \A k \in 2..Len(buff) : ~IsDeclaration(buff[k])
        /\ lut # <<>> =>
              /\ Len(buff[1]) = Len(lut) + 3
              /\ buff[1][Len(buff[1])] = <<"};">>
              /\ \A k \in 1..Len(lut) :
                    /\ buff[1][k + 2][3] = lut[k][1]
                    /\ buff[1][k + 2][6] = ToString(lut[k][2])
              /\ \A j, k \in 1..Len(lut) : j # k => lut[j][1] # lut[k][1]
        /\ Len(buff) = Len(BlocksPreOrder(swf)) + (IF lut # <<>> THEN 1 ELSE 0)
        /\ swf = EmptyClip => lut = <<>> /\ buff = <<>> /\ code = Some(<<>>) /\ err = ""

\* C4: a program is written whose table has two labels: the declaration block
\* of five lines comes first, before two bytecode blocks or more.
C4_Witness ==
    /\ pc = "done"
    /\ Len(lut) = 2
    /\ Len(buff) >= 3
    /\ IsDeclaration(buff[1])
    /\ Len(buff[1]) = 5
    /\ code # Some(<<>>)

\* ------------------------------------------------------------------ properties: the export

\* render_path returned no image and the export has not looked at it yet
AtEmptyResult == pc = "export" /\ images[1] = 0

\* C11: when render_path returned no image the next step raises "Did not
\* render any frames!" and opens no file; and in every state of a run whose
\* render returned no image no file was opened for writing and nothing was
\* printed, whatever the layout.
C11_EmptyResultFatal ==
    /\ [][AtEmptyResult =>
            /\ pc' = "raised"
            /\ err' = "Did not render any frames!"
            /\ UNCHANGED <<written, stdout>>]_vars
    /\ [](images = Some(0) => written = <<>> /\ stdout = 0 /\ pc \in {"export", "raised"})

\* C11: a render to o.gif returned no image and main() died of it with no
\* file opened.
C11_Witness ==
    /\ pc = "raised"
    /\ err = "Did not render any frames!"
    /\ fmt = "GIF"
    /\ images = Some(0)
    /\ "render_path" \in calls
    /\ written = <<>>

\* floor(log10(n)) + 1 for n >= 1: the d with 10^(d - 1) <= n < 10^d
DigitsNeeded(n) == CHOOSE d \in 1..9 : 10 ^ (d - 1) <= n /\ n < 10 ^ d

\* the digits of a frame's file name: what stands between the base name with
\* its "-" and the extension
FieldOf(name) == SubSeq(name, Len(args.output) - 2, Len(name) - 4)

DigitValue(c) ==
    CASE c = "0" -> 0 [] c = "1" -> 1 [] c = "2" -> 2 [] c = "3" -> 3 [] c = "4" -> 4
      [] c = "5" -> 5 [] c = "6" -> 6 [] c = "7" -> 7 [] c = "8" -> 8 [] c = "9" -> 9

\* the number a sequence of digits writes
RECURSIVE NumberOf(_)
NumberOf(digits) ==
    IF digits = <<>> THEN 0
    ELSE 10 * NumberOf(SubSeq(digits, 1, Len(digits) - 1)) + DigitValue(digits[Len(digits)])

\* a sorts before b, for digit sequences of one length
SortsBefore(a, b) ==
    \E k \in 1..Len(a) :
        /\ SubSeq(a, 1, k - 1) = SubSeq(b, 1, k - 1)
        /\ DigitValue(a[k]) < DigitValue(b[k])

\* C12: a finished PNG export of n >= 1 frames opened exactly n files, in
\* frame order; file k (from 0) is the base name, "-", k written in
\* floor(log10(n)) + 1 digits with leading zeros, and the extension; so the
\* names have one length, differ pairwise and sort in frame order; 12 frames
\* give -00 to -11 and 5 frames -0 to -4.
C12_FrameNames ==
    (pc = "done" /\ fmt = "PNG") =>
        LET n == images[1]
            base == SubSeq(args.output, 1, Len(args.output) - 4) \o <<"-">>
        IN /\ n >= 1
           /\ Len(written) = n
           /\ \A k \in 1..n :
                 /\ Len(written[k]) = Len(args.output) + 1 + DigitsNeeded(n)
                 /\ SubSeq(written[k], 1, Len(base)) = base
                 /\ Last(written[k], 4) = Last(args.output, 4)
                 /\ Len(FieldOf(written[k])) = DigitsNeeded(n)
                 /\ NumberOf(FieldOf(written[k])) = k - 1
           /\ \A j, k \in 1..n :
                 j < k => /\ written[j] # written[k]
                          /\ SortsBefore(FieldOf(written[j]), FieldOf(written[k]))
           /\ n = 12 => /\ FieldOf(written[1]) = <<"0", "0">>
                        /\ FieldOf(written[12]) = <<"1", "1">>
           /\ n = 5 => FieldOf(written[1]) = <<"0">> /\ FieldOf(written[5]) = <<"4">>

\* C12: the export of 12 frames to o.png is over: o-00.png was opened first
\* and o-11.png last.
C12_Witness ==
    /\ pc = "done"
    /\ fmt = "PNG"
    /\ images = Some(12)
    /\ Len(written) = 12
    /\ written[1] = <<"o", "-", "0", "0", ".", "p", "n", "g">>
    /\ written[10] = <<"o", "-", "0", "9", ".", "p", "n", "g">>
    /\ written[12] = <<"o", "-", "1", "1", ".", "p", "n", "g">>

\* the command line forces a ratio of two terms of which one is not positive
BadRatio ==
    /\ args.force_aspect_ratio # None
    /\ Len(args.force_aspect_ratio[1]) = 2
    /\ \/ args.force_aspect_ratio[1][1] <= 0
       \/ args.force_aspect_ratio[1][2] <= 0

\* C13: a forced ratio with rx <= 0 or ry <= 0 ends the render with the
\* error "Ratio must only include positive numbers!" at the ratio check, and
\* such a run never computes a ratio, a candidate size or a transform, never
\* calls render_path(), holds no images and opens no output file.
C13_NonPositiveRatioFatal ==
    /\ [][(pc = "aspect" /\ BadRatio) =>
              /\ pc' = "raised"
              /\ err' = "Ratio must only include positive numbers!"
              /\ UNCHANGED <<transform, images, written, stdout>>]_vars
    /\ [](BadRatio =>
              /\ pc \notin {"ratio", "choose", "scale", "render", "export", "done"}
              /\ actual_ratio = None
              /\ new_width = None
              /\ new_height = None
              /\ transform.a = FZero
              /\ transform.d = FZero
              /\ "render_path" \notin calls
              /\ images = None
              /\ written = <<>>
              /\ stdout = 0)
    /\ [](err = "Ratio must only include positive numbers!" => BadRatio /\ pc = "raised")

\* C13: the render to o.png forced to 4:-3 has stopped with the error after
\* measuring the movie, and nothing was rendered or written.
C13_Witness ==
    /\ pc = "raised"
    /\ err = "Ratio must only include positive numbers!"
    /\ args.force_aspect_ratio = Some(<<4, -3>>)
    /\ calls = {"compute_path_location"}
    /\ images = None
    /\ written = <<>>

\* ------------------------------------------------------------------ properties: the IFS scan

\* the path the scan of an IFS listing is at
PathAt == ifsfile[1][i + 1]

\* the scan is at a path afp/X
AtAfpPath ==
    /\ pc = "files"
    /\ i < Len(ifsfile[1])
    /\ Len(PathAt) >= 4
    /\ SubSeq(PathAt, 1, 4) = <<"a", "f", "p", "/">>

\* the X of the path afp/X the scan is at
ClipAt == SubSeq(PathAt, 5, Len(PathAt))

\* afp/bsi/X is a path of the listing
Paired ==
    \E k \in 1..Len(ifsfile[1]) :
        ifsfile[1][k] = <<"a", "f", "p", "/", "b", "s", "i", "/">> \o ClipAt

\* C14: at a path afp/X of an IFS listing the scan registers clip X, built
\* from that path, exactly when afp/bsi/X is a path of the same listing;
\* otherwise it registers nothing; either way no error is raised, no other
\* name is touched and the scan goes on to the next path.
C14_ClipNeedsCompanion ==
    [][AtAfpPath =>
          /\ pc' = "files"
          /\ i' = i + 1
          /\ UNCHANGED <<err, ci, ifsfile, shapes, textures>>
          /\ IF Paired
             THEN /\ DOMAIN swfs' = DOMAIN swfs \cup {ClipAt}
                  /\ swfs'[ClipAt].file = PathAt
                  /\ swfs'[ClipAt].src = ci + 1
                  /\ \A n \in DOMAIN swfs \ {ClipAt} : swfs'[n] = swfs[n]
                  /\ registered' \ registered # {}
             ELSE UNCHANGED <<swfs, registered, stderr>>]_vars

\* C14: the scan of the listing afp/X, afp/Y, afp/bsi/Y of the first container
\* is over: X, which has no companion, was passed without an error, and Y,
\* which has one, is the only clip.
C14_Witness ==
    /\ pc = "files"
    /\ ci = 0
    /\ ifsfile = Some(<< <<"a", "f", "p", "/", "X">>, <<"a", "f", "p", "/", "Y">>,
                         <<"a", "f", "p", "/", "b", "s", "i", "/", "Y">> >>)
    /\ i = 3
    /\ DOMAIN swfs = {NameY}
    /\ swfs[NameY].file = <<"a", "f", "p", "/", "Y">>
    /\ err = ""

\* ------------------------------------------------------------------ properties: the crop

\* the region loop is at an entry whose texture has a decoded image
AtDecodedRegion ==
    /\ pc = "regions"
    /\ i < Len(afpfile[1].regionmap)
    /\ i < Len(afpfile[1].texture_to_region)
    /\ SheetAt(i + 1) # None
    /\ SheetAt(i + 1)[1].img # None

\* the region the loop is at, as left, top, right, bottom
RegionAt ==
    LET region == afpfile[1].texture_to_region[i + 1]
    IN <<region.left, region.top, region.right, region.bottom>>

\* the step registers, under the name of the region the loop is at, a crop
\* of that region's sheet
CropsSheetAt ==
    LET name == afpfile[1].regionmap[i + 1]
    IN /\ name \in DOMAIN textures'
       /\ textures'[name].kind = "crop"
       /\ textures'[name].src = ci + 1
       /\ textures'[name].idx = SheetAt(i + 1)[1].img[1]

\* the rectangle of the crop the step registers
CropAt == textures'[afpfile[1].regionmap[i + 1]].box

\* C15 as stated: the crop rectangle is the region with each coordinate
\* exactly halved.
C15_CropExactHalf ==
    [][AtDecodedRegion =>
          /\ CropsSheetAt
          /\ \A k \in 1..4 : 2 * CropAt[k] = RegionAt[k]]_vars

\* C15: at a region whose texture has a decoded image the step registers,
\* under the region's name, the crop of that sheet whose rectangle is the
\* region with each coordinate halved and rounded down to a whole pixel;
\* the region (100, 100, 300, 300) crops (50, 50)-(150, 150).
C15_CropFloorHalf ==
    [][AtDecodedRegion =>
          /\ CropsSheetAt
          /\ \A k \in 1..4 : 2 * CropAt[k] <= RegionAt[k] /\ RegionAt[k] < 2 * CropAt[k] + 2
          /\ RegionAt = <<100, 100, 300, 300>> => CropAt = <<50, 50, 150, 150>>]_vars

\* C15: both regions of the first container are registered: X, the region
\* (100, 100, 300, 300), as the crop (50, 50)-(150, 150) of the first sheet
\* and Y, the region (1, 3, 101, 7), as the crop (0, 1)-(50, 3) of the second.
C15_Witness ==
    /\ pc = "regions"
    /\ ci = 0
    /\ i = 2
    /\ DOMAIN textures = {NameX, NameY}
    /\ textures[NameX].kind = "crop"
    /\ textures[NameX].box = <<50, 50, 150, 150>>
    /\ textures[NameY].kind = "crop"
    /\ textures[NameY].box = <<0, 1, 50, 3>>

\* ------------------------------------------------------------------ properties: the defensive checks

\* both candidate sizes are below the natural size
BothSmaller ==
    /\ FLt(new_width[1], swf_location.width)
    /\ FLt(new_height[1], swf_location.height)

\* both candidate sizes are above the natural size
BothLarger ==
    /\ FGt(new_width[1], swf_location.width)
    /\ FGt(new_height[1], swf_location.height)

\* C16: whenever the candidates are computed (a positive natural size, a
\* forced ratio of two positive terms that differs from the natural ratio by
\* more than 0.0001) they are neither both smaller nor both larger than the
\* natural size, the step that examines them raises nothing and goes on to
\* the scale step, and no run ever stops with "Impossible aspect ratio!".
C16_ImpossibleUnreachable ==
    /\ [](pc = "choose" => ~BothSmaller /\ ~BothLarger)
    /\ [][pc = "choose" => pc' = "scale" /\ err' = ""]_vars
    /\ [](err # "Impossible aspect ratio!")

\* C16: a movie of 2 by 3 forced to 5:1 passed both checks: the candidate
\* width 15 is larger and the candidate height is smaller than the natural.
C16_Witness ==
    /\ pc = "scale"
    /\ err = ""
    /\ args.location = <<2, 3>>
    /\ args.force_aspect_ratio = Some(<<5, 1>>)
    /\ new_width = Some(FromInt(15))
    /\ FGt(new_width[1], swf_location.width)
    /\ FLt(new_height[1], swf_location.height)

\* ------------------------------------------------------------------ properties: one family per container

\* the kinds of asset the TXP2 branch registers
IndexedKinds == {"shape", "crop", "swf"}

\* the kinds of asset the IFS scan registers
FlatKinds == {"Shape", "Image", "SWF"}

\* what the container at position k of the command line registered
LoadedFrom(k) == {e \in registered : e.asset.src = k}

\* C17: every container is tried as TXP2 first; when that parse succeeds the
\* loop registers its shapes, then its region textures, then its clips (each
\* loop touching its own namespace only) and goes on to the next container
\* without trying the IFS parse; the IFS parse and scan happen only on a
\* container the TXP2 parse failed on; so what one container registered is
\* all of the TXP2 branch or all of the IFS scan.
C17_OneFamilyIndexedFirst ==
    /\ [][pc = "loop" => pc' = "txp2"]_vars
    /\ [][pc = "txp2" =>
              IF data.txp2 # None
              THEN pc' = "shapes" /\ afpfile' = data.txp2
              ELSE pc' = "ifs"]_vars
    /\ [](pc \in {"shapes", "regions", "swfs"} => data.txp2 # None)
    /\ [](pc \in {"ifs", "files"} => data.txp2 = None)
    /\ [][pc = "shapes" =>
              /\ pc' \in {"shapes", "regions"}
              /\ UNCHANGED <<textures, swfs>>]_vars
    /\ [][pc = "regions" =>
              /\ pc' \in {"regions", "swfs", "raised"}
              /\ UNCHANGED <<shapes, swfs>>]_vars
    /\ [][pc = "swfs" =>
              /\ pc' \in {"swfs", "loop", "dispatch"}
              /\ pc' # "swfs" => ci' = ci + 1
              /\ UNCHANGED <<shapes, textures>>]_vars
    /\ [](\A k \in 1..args.ncontainers :
              \/ \A e \in LoadedFrom(k) : e.asset.kind \in IndexedKinds
              \/ \A e \in LoadedFrom(k) : e.asset.kind \in FlatKinds)

\* C17: the first container, which both parsers accept, is at the end of the
\* TXP2 branch: its shape, its region texture and its clip are registered and
\* nothing of its IFS listing is.
C17_Witness ==
    /\ pc = "swfs"
    /\ ci = 0
    /\ data = BothFile
    /\ i = Len(afpfile[1].swfmap)
    /\ {e.asset.kind : e \in LoadedFrom(1)} = IndexedKinds
    /\ DOMAIN shapes = {NameX}
    /\ DOMAIN textures = {NameX}
    /\ DOMAIN swfs = {NameX}

====
